---- MODULE Spec2Model ----
(***************************************************************************)
(* Verification model of the GR Cup analytics repository                   *)
(* (dzecena/pit-commander-ai).  Each component is a state machine of its   *)
(* own, with its own specification; the variables of the components a      *)
(* specification does not exercise stay at their idle values.              *)
(*                                                                         *)
(*   SpecCleaner   Telemetry Data Cleaner      (data_cleaner.py)           *)
(*   SpecPit       Pit Strategy Optimizer      (pit_strategy.py)           *)
(*   SpecValidate  validate_data_format        (new_data_processor.py)     *)
(*   SpecBaseline  New-Session Baseline Integrator, one call at a time     *)
(*   SpecBaselineConcurrent  two calls for the same track, concurrently    *)
(*   SpecVersions  Dashboard Version Manager, one command at a time        *)
(*   SpecVersionsConcurrent  two create commands running concurrently      *)
(*   SpecCleanup   Resource Cleanup Tool           (aws_cleanup.py)        *)
(*   SpecStream    Telemetry replay channel        (api/main.py)           *)
(*   SpecStreamFair  the same, the handler being resumed after each await  *)
(*   SpecApi       Prediction and strategy routes  (api/main.py)           *)
(*   SpecFunction  Standalone Prediction Function  (api/lambda_handler.py) *)
(*   SpecDashboard Dashboard API Lambda handlers   (fixed/enhanced_main.py)*)
(*   SpecTrigger   Telemetry Ingestion Trigger     (telemetry_processor.py)*)
(*   SpecTraining  Model Training Script           (train_model.py)        *)
(*   SpecRecovery  Environment Recovery Checker    (recovery_check.py)     *)
(*   SpecRating    performance rating of the report (new_data_processor.py)*)
(*   SpecPitWindow pit-window route of the function (api/lambda_handler.py)*)
(***************************************************************************)
EXTENDS Integers, Sequences, FiniteSets, TLC

VARIABLES
    raw,        \* cleaner: the table read from the raw telemetry CSV
    df,         \* cleaner: the working table of clean_telemetry
    stage,      \* cleaner: position in the clean_telemetry pipeline
    pitReq,     \* pit strategy: the current_state and tire model of a request
    pitScen,    \* pit strategy: the list simulate_pit_scenarios returned
    pitRec,     \* pit strategy: what get_recommendation returned (or raised)
    pitPhase,   \* pit strategy: idle / requested / answered
    baselineFile, \* integrator: data/baselines/<track>_baseline_metrics.json
    run,        \* integrator: the process_new_data_file calls in progress
    history,    \* integrator: the sessions saved into the baseline so far
    vdf,        \* validation: rows of the table, counted by missing cells
    validation, \* validation: the result of validate_data_format
    live,       \* versions: content of dashboard/track_dashboard.html
    snapshots,  \* versions: the files of dashboard/versions, name -> content
    versionLog, \* versions: dashboard/versions/version_log.json
    clock,      \* versions: the wall clock, in seconds
    vm,         \* versions: the version manager commands in progress
    cleanup,    \* cleanup tool: the run of aws_cleanup.py main()
    ws,        \* replay channel: one /ws/telemetry connection
    api,       \* analytics API: model state and the responses given
    fn,        \* prediction function: process globals, bucket, last response
    dash,      \* dashboard API: stored objects and the last response
    tp,        \* ingestion trigger: bucket keys, queued events, outputs
    train,     \* training script: the run of train_model.py main()
    recov,     \* recovery checker: inventory, plan and quick-start line
    rating,    \* comparison report: the speeds compared and the rating given
    pw         \* prediction function: a pit-window request and its answer

cleanerVars == <<raw, df, stage>>
pitVars == <<pitReq, pitScen, pitRec, pitPhase>>
baselineVars == <<baselineFile, run, history>>
validateVars == <<vdf, validation>>
versionVars == <<live, snapshots, versionLog, clock, vm>>
vars == <<raw, df, stage, pitReq, pitScen, pitRec, pitPhase,
          baselineFile, run, history, vdf, validation,
          live, snapshots, versionLog, clock, vm,
          cleanup, ws, api, fn, dash, tp, train, recov, rating,
          pw>>

(***************************************************************************)
(* Telemetry Data Cleaner: src/src/data_processing/data_cleaner.py         *)
(***************************************************************************)
\* bound: rows of a raw telemetry table
MaxRows == 3

\* self.lap_error_value
lap_error_value == 32768
\* fix_lap_errors(threshold_seconds=120), in the milliseconds of `timestamp`
threshold_ms == 120000

\* a missing vehicle_id cell (pd.isna) and an unparsable timestamp (NaT)
NaNVid == "NaN"
NaT == -1

VehicleIds == {"GR86-004-078", NaNVid}
Timestamps == {0, 130000, 300000, NaT}
LapValues == {lap_error_value, 0, 1, 2}

TelemetryRow == [vehicle_id : VehicleIds, timestamp : Timestamps, lap : LapValues]

\* sort_values(['vehicle_id', 'timestamp']): ascending, missing values last
VidRank(v) == IF v = NaNVid THEN 1 ELSE 0
TsLess(a, b) == a # NaT /\ (b = NaT \/ a < b)
RowLess(a, b) ==
    \/ VidRank(a.vehicle_id) < VidRank(b.vehicle_id)
    \/ /\ a.vehicle_id = b.vehicle_id
       /\ TsLess(a.timestamp, b.timestamp)

RECURSIVE InsertRow(_, _)
\* r goes after every row that is not greater than it (the sort is stable)
InsertRow(r, s) ==
    IF s = <<>> THEN <<r>>
    ELSE IF RowLess(r, Head(s)) THEN <<r>> \o s
         ELSE <<Head(s)>> \o InsertRow(r, Tail(s))

RECURSIVE SortRowsFrom(_, _, _)
SortRowsFrom(s, i, acc) ==
    IF i > Len(s) THEN acc
    ELSE SortRowsFrom(s, i + 1, InsertRow(s[i], acc))

sort_values(s) == SortRowsFrom(s, 1, <<>>)

\* time_gap of a row: seconds since the previous row of the same vehicle,
\* NaN (no gap) for the vehicle's first row and next to an invalid timestamp
HasGapOver(prev, ts) ==
    /\ prev # NaT
    /\ ts # NaT
    /\ ts - prev > threshold_ms

RECURSIVE ReconstructFrom(_, _, _, _, _)
\* the per-vehicle loop of fix_lap_errors over the sorted table: rows of one
\* vehicle are contiguous; current_lap restarts at 1 and the first gap is NaN
\* for every vehicle; rows without a vehicle_id are skipped (left as they are)
ReconstructFrom(s, i, vid, current_lap, prev) ==
    IF i > Len(s) THEN <<>>
    ELSE LET row == s[i]
             first == row.vehicle_id # vid
             cl0 == IF first THEN 1 ELSE current_lap
             gapOver == IF first THEN FALSE ELSE HasGapOver(prev, row.timestamp)
             cl1 == IF row.lap = lap_error_value
                      THEN (IF gapOver THEN cl0 + 1 ELSE cl0)
                      ELSE (IF row.lap > 0 THEN row.lap ELSE cl0)
         IN  IF row.vehicle_id = NaNVid
               THEN <<row>> \o ReconstructFrom(s, i + 1, vid, current_lap, prev)
               ELSE <<[row EXCEPT !.lap = cl1]>>
                      \o ReconstructFrom(s, i + 1, row.vehicle_id, cl1, row.timestamp)

HasLapError(s) == \E i \in 1..Len(s) : s[i].lap = lap_error_value

\* GRCupDataCleaner.fix_lap_errors
fix_lap_errors(s) ==
    IF ~HasLapError(s) THEN s
    ELSE ReconstructFrom(sort_values(s), 1, "", 1, NaT)

RECURSIVE align_timestamps(_)
\* GRCupDataCleaner.align_timestamps: rows whose timestamp does not parse
\* (timestamp_dt is NaT) are removed, the others keep their order
align_timestamps(s) ==
    IF s = <<>> THEN <<>>
    ELSE IF Head(s).timestamp = NaT THEN align_timestamps(Tail(s))
         ELSE <<Head(s)>> \o align_timestamps(Tail(s))

\* clean_telemetry reads the CSV
LoadTelemetry ==
    /\ stage = "start"
    /\ \E n \in 1..MaxRows : \E t \in [1..n -> TelemetryRow] :
          /\ raw' = t
          /\ df' = t
    /\ stage' = "loaded"

\* clean_telemetry: df = self.fix_lap_errors(df)
FixLapErrors ==
    /\ stage = "loaded"
    /\ df' = fix_lap_errors(df)
    /\ stage' = "lapfixed"
    /\ UNCHANGED raw

\* clean_telemetry: align_timestamps, derived features, dropna, to_csv
AlignAndSave ==
    /\ stage = "lapfixed"
    /\ df' = align_timestamps(df)
    /\ stage' = "cleaned"
    /\ UNCHANGED raw

CleanerStart ==
    /\ raw = <<>>
    /\ df = <<>>
    /\ stage = "start"

(***************************************************************************)
(* Pit Strategy Optimizer: src/src/models/pit_strategy.py                  *)
(* Lap times are whole seconds; confidences and degradation rates are in   *)
(* tenths (confidence 3 is 0.3, rate 5 is 0.5).                            *)
(***************************************************************************)
\* bound: length of a race in laps
MaxRaceLaps == 10

\* self.pit_loss_seconds
pit_loss_seconds == 30

\* values of current_state the requests are drawn from
Positions == {1, 3}
SessionBests == {-10, 0, 20, 120}
\* track_features['tire_age']: 0 stands for an absent key
TireAges == {0, 12, 16}
\* track_features['track_degradation_rate'], tenths (0.5 is the default)
DegradationRates == {5, 20}
\* the tire model handed to the optimizer: absent (None), not trained, or a
\* trained regressor whose prediction grows by `wear` seconds per lap of tire age
TireModels ==
    {[present |-> FALSE, is_trained |-> FALSE, wear |-> 0],
     [present |-> TRUE, is_trained |-> FALSE, wear |-> 0],
     [present |-> TRUE, is_trained |-> TRUE, wear |-> 0],
     [present |-> TRUE, is_trained |-> TRUE, wear |-> 10]}
BasePace == 100

NoRequest == [current_lap |-> 0]
NoRecommendation == [action |-> "none"]

\* TireDegradationModel.predict_lap_time(features)['predicted_time']
predict_lap_time(model, tire_age) ==
    IF ~model.is_trained THEN 0
    ELSE BasePace + model.wear * tire_age

\* track_features.get('tire_age', current_lap)
CurrentTireAge(req) == IF req.tire_age = 0 THEN req.current_lap ELSE req.tire_age

RECURSIVE SumLapTimes(_, _, _)
\* sum of the predicted lap times for tire ages from..to
SumLapTimes(model, from, to) ==
    IF from > to THEN 0
    ELSE predict_lap_time(model, from) + SumLapTimes(model, from + 1, to)

\* int(self.pit_loss_seconds / (session_best * 1.05)): truncation toward
\* zero of 30 / (1.05 * sb) = 600 / (21 * sb); only called with sb # 0
PositionsLostInPit(sb) ==
    IF sb > 0 THEN (20 * pit_loss_seconds) \div (21 * sb)
    ELSE 0 - ((20 * pit_loss_seconds) \div (21 * (0 - sb)))

Max(a, b) == IF a >= b THEN a ELSE b
Min(a, b) == IF a <= b THEN a ELSE b

\* PitStrategyOptimizer._simulate_single_scenario
simulate_single_scenario(req, pit_lap) ==
    LET age0 == CurrentTireAge(req)
        phase1 == SumLapTimes(req.model, age0, age0 + (pit_lap - req.current_lap))
        later == pit_lap > req.current_lap
        position_changes == IF later THEN PositionsLostInPit(req.session_best) ELSE 0
        phase2 == SumLapTimes(req.model, 1, req.max_laps - pit_lap)
    IN  [pit_lap |-> pit_lap,
         total_time |-> phase1 + (IF later THEN pit_loss_seconds ELSE 0) + phase2,
         position_changes |-> position_changes,
         predicted_final_position |-> Max(1, req.position + position_changes),
         pit_now |-> pit_lap = req.current_lap,
         laps_to_pit |-> pit_lap - req.current_lap]

\* pit_window_end = min(max_laps - 5, current_lap + 15)
PitWindowEnd(req) == Min(req.max_laps - 5, req.current_lap + 15)

RECURSIVE InsertScenario(_, _)
\* list.sort(key=predicted_final_position) is stable
InsertScenario(x, s) ==
    IF s = <<>> THEN <<x>>
    ELSE IF x.predicted_final_position < Head(s).predicted_final_position
           THEN <<x>> \o s
           ELSE <<Head(s)>> \o InsertScenario(x, Tail(s))

RECURSIVE SortScenariosFrom(_, _, _)
SortScenariosFrom(s, i, acc) ==
    IF i > Len(s) THEN acc
    ELSE SortScenariosFrom(s, i + 1, InsertScenario(s[i], acc))

\* PitStrategyOptimizer.simulate_pit_scenarios (when no step raises)
simulate_pit_scenarios(req) ==
    LET n == PitWindowEnd(req) - req.current_lap + 1
        unsorted == IF n <= 0 THEN <<>>
                    ELSE [k \in 1..n |-> simulate_single_scenario(req, req.current_lap + k - 1)]
    IN  SortScenariosFrom(unsorted, 1, <<>>)

\* the exception a step of the simulation raises, "none" when none does:
\* self.tire_model.predict_lap_time on a missing model, and the division by
\* session_best * 1.05 for a candidate that pits later than the current lap
SimulationError(req) ==
    IF PitWindowEnd(req) < req.current_lap THEN "none"
    ELSE IF ~req.model.present THEN "AttributeError"
    ELSE IF req.session_best = 0 /\ PitWindowEnd(req) > req.current_lap
           THEN "ZeroDivisionError"
           ELSE "none"

\* PitStrategyOptimizer.calculate_tire_cliff
calculate_tire_cliff(req) ==
    LET over == {a \in 1..30 :
                    predict_lap_time(req.model, a) - predict_lap_time(req.model, 1) > 1}
    IN  IF over = {} THEN 25
        ELSE CHOOSE a \in over : \A b \in over : a <= b

\* PitStrategyOptimizer._default_recommendation
default_recommendation ==
    [action |-> "STAY_OUT", laps_remaining |-> 5, confidence |-> 3,
     position_impact |-> "Unknown", scenarios |-> <<>>, tire_cliff_lap |-> 20]

\* (variant for C4: the within-3-laps test comes before the pit_now test)
RecommendAction_late_pit_now(best) ==
    IF best.laps_to_pit <= 3
      THEN [action |-> "PIT_IN_" \o ToString(best.laps_to_pit) \o "_LAPS",
            laps_remaining |-> best.laps_to_pit]
    ELSE IF best.pit_now THEN [action |-> "PIT_NOW", laps_remaining |-> 0]
    ELSE [action |-> "STAY_OUT", laps_remaining |-> best.laps_to_pit]

\* the action / laps_remaining branch of get_recommendation
RecommendAction(best) ==
    IF best.pit_now THEN [action |-> "PIT_NOW", laps_remaining |-> 0]
    ELSE IF best.laps_to_pit <= 3
           THEN [action |-> "PIT_IN_" \o ToString(best.laps_to_pit) \o "_LAPS",
                 laps_remaining |-> best.laps_to_pit]
           ELSE [action |-> "STAY_OUT", laps_remaining |-> best.laps_to_pit]

\* the confidence heuristic of get_recommendation
Confidence(req) ==
    IF CurrentTireAge(req) > 15 /\ req.degradation_rate > 10 THEN 9
    ELSE IF CurrentTireAge(req) > 10 THEN 7
    ELSE 5

PositionImpact(best, position) ==
    IF best.predicted_final_position < position
      THEN "Gain to P" \o ToString(best.predicted_final_position)
    ELSE IF best.predicted_final_position > position
      THEN "Drop to P" \o ToString(best.predicted_final_position)
    ELSE "Stay P" \o ToString(position)

\* (variant for C5: the handler catches attribute errors only)
Catches_attribute_only(exc) == exc = "AttributeError"

\* `except Exception` of get_recommendation
Catches(exc) == TRUE

\* PitStrategyOptimizer.get_recommendation
get_recommendation(req) ==
    LET exc == SimulationError(req)
        scenarios == simulate_pit_scenarios(req)
    IN  IF exc # "none"
          THEN (IF Catches(exc) THEN default_recommendation
                ELSE [action |-> "raised", error |-> exc])
        ELSE IF scenarios = <<>> THEN default_recommendation
        ELSE LET best == scenarios[1]
                 act == RecommendAction(best)
             IN  [action |-> act.action,
                  laps_remaining |-> act.laps_remaining,
                  confidence |-> Confidence(req),
                  position_impact |-> PositionImpact(best, req.position),
                  scenarios |-> SubSeq(scenarios, 1, Min(3, Len(scenarios))),
                  tire_cliff_lap |-> calculate_tire_cliff(req)]

\* the values of current_state together with the optimizer's tire model
PitRequests ==
    {req \in [current_lap : 1..MaxRaceLaps, max_laps : 1..MaxRaceLaps,
              position : Positions, session_best : SessionBests,
              tire_age : TireAges, degradation_rate : DegradationRates,
              model : TireModels] : req.current_lap <= req.max_laps}

\* a caller builds current_state and hands it to the optimizer
PitRequest ==
    /\ pitPhase = "idle"
    /\ \E req \in PitRequests : pitReq' = req
    /\ pitPhase' = "requested"
    /\ UNCHANGED <<pitScen, pitRec>>

\* get_recommendation runs to its return
GetRecommendation ==
    /\ pitPhase = "requested"
    /\ pitScen' = IF SimulationError(pitReq) # "none" THEN <<>>
                  ELSE simulate_pit_scenarios(pitReq)
    /\ pitRec' = get_recommendation(pitReq)
    /\ pitPhase' = "answered"
    /\ UNCHANGED pitReq

\* the caller has consumed the recommendation
PitReturn ==
    /\ pitPhase = "answered"
    /\ pitReq' = NoRequest
    /\ pitScen' = <<>>
    /\ pitRec' = NoRecommendation
    /\ pitPhase' = "idle"

PitStart ==
    /\ pitReq = NoRequest
    /\ pitScen = <<>>
    /\ pitRec = NoRecommendation
    /\ pitPhase = "idle"

(***************************************************************************)
(* New-Session Baseline Integrator: src/scripts/new_data_processor.py      *)
(* Averages are exact rationals [num, den] in lowest terms.                *)
(***************************************************************************)
\* bound: rows of the table handed to validate_data_format
MaxValidateRows == 11
\* bound: rows of a session file integrated into the baseline
MaxSessionRows == 2
\* bound: sessions integrated into one track's baseline
MaxSessions == 3
\* bound: rows of a session file handled by one of two concurrent calls
MaxConcurrentRows == 1

RECURSIVE GCD(_, _)
GCD(a, b) == IF b = 0 THEN a ELSE GCD(b, a % b)

\* the rational n / d (d > 0, n >= 0) in lowest terms
Rat(n, d) == LET g == GCD(n, d) IN [num |-> n \div g, den |-> d \div g]
RatInt(n) == [num |-> n, den |-> 1]
RatAdd(a, b) == Rat(a.num * b.den + b.num * a.den, a.den * b.den)
RatMulInt(a, k) == Rat(a.num * k, a.den)
RatDivInt(a, k) == Rat(a.num, a.den * k)
RatLess(a, b) == a.num * b.den < b.num * a.den

\* round(x, 1) in tenths: the nearest tenth, an exact tie going to the even one
RoundTenths(a) ==
    LET q == (10 * a.num) \div a.den
        r == (10 * a.num) % a.den
    IN  IF 2 * r < a.den THEN q
        ELSE IF 2 * r > a.den THEN q + 1
        ELSE IF q % 2 = 0 THEN q ELSE q + 1

\* the columns whose missing cells validate_data_format counts
CriticalColumns == {"Speed", "lap", "timestamp"}
\* a row is described by the set of critical columns it lacks
MissingPatterns == SUBSET CriticalColumns

RECURSIVE SumOver(_, _)
\* sum of f[x] over the set S
SumOver(f, S) ==
    IF S = {} THEN 0
    ELSE LET x == CHOOSE y \in S : TRUE IN f[x] + SumOver(f, S \ {x})

\* len(df) and df.isnull().sum()[col] of a table given by its row patterns
TotalRecords(t) == SumOver(t, MissingPatterns)
NullCount(t, col) == SumOver(t, {p \in MissingPatterns : col \in p})
\* rows that lack at least one critical cell
RowsLacking(t) == SumOver(t, {p \in MissingPatterns : p # {}})

\* null_counts[['Speed', 'lap', 'timestamp']].sum()
critical_nulls(t) == NullCount(t, "Speed") + NullCount(t, "lap") + NullCount(t, "timestamp")

\* critical_nulls > total_records * 0.1
TooMuchMissing(nulls, total_records) == 10 * nulls > total_records

\* NewDataProcessor.validate_data_format, the data-completeness part
validate_data_format(t) ==
    LET too_much == TooMuchMissing(critical_nulls(t), TotalRecords(t))
    IN  [valid |-> ~too_much,
         too_much_missing |-> too_much,
         total_records |-> TotalRecords(t)]

NoValidation == [valid |-> FALSE, too_much_missing |-> FALSE, total_records |-> -1]

\* one more row of the incoming table is read
ReadRow ==
    /\ validation = NoValidation
    /\ TotalRecords(vdf) < MaxValidateRows
    /\ \E p \in MissingPatterns : vdf' = [vdf EXCEPT ![p] = @ + 1]
    /\ UNCHANGED validation

\* validate_data_format runs on the table read
ValidateDataFormat ==
    /\ validation = NoValidation
    /\ TotalRecords(vdf) > 0
    /\ validation' = validate_data_format(vdf)
    /\ UNCHANGED vdf

ValidateStart ==
    /\ vdf = [p \in MissingPatterns |-> 0]
    /\ validation = NoValidation

\* ----- the baseline document and one process_new_data_file call -----
Drivers == {"GR86-004-078", "GR86-013-080"}
NaNSpeed == -1
Speeds == {100, 120, NaNSpeed}
SessionRow == [vehicle_id : Drivers, Speed : Speeds]
RunIds == {1, 2}

NoFile == [total_sessions |-> -1]

\* load_or_create_baseline, the new-baseline structure
NewBaseline ==
    [total_sessions |-> 0,
     total_drivers |-> 0,
     field_avg_speed |-> RatInt(0),
     field_max_speed |-> 0,
     driver_records |-> <<>>]

\* NewDataProcessor.load_or_create_baseline
load_or_create_baseline(file) == IF file = NoFile THEN NewBaseline ELSE file

SessionDrivers(rows) == {rows[i].vehicle_id : i \in 1..Len(rows)}
DriverRows(rows, d) == {i \in 1..Len(rows) : rows[i].vehicle_id = d}

\* the missing cells of a session table, as validate_data_format counts them
SessionPattern(rows) ==
    [p \in MissingPatterns |->
        IF p = {} THEN Cardinality({i \in 1..Len(rows) : rows[i].Speed # NaNSpeed})
        ELSE IF p = {"Speed"} THEN Cardinality({i \in 1..Len(rows) : rows[i].Speed = NaNSpeed})
        ELSE 0]

RECURSIVE SumSpeed(_, _)
SumSpeed(rows, I) ==
    IF I = {} THEN 0
    ELSE LET i == CHOOSE j \in I : TRUE IN rows[i].Speed + SumSpeed(rows, I \ {i})

\* df['Speed'].mean() and .max() over the rows I (missing cells are skipped)
MeanSpeed(rows, I) ==
    LET J == {i \in I : rows[i].Speed # NaNSpeed}
    IN  Rat(SumSpeed(rows, J), Cardinality(J))
MaxSpeed(rows, I) ==
    LET J == {i \in I : rows[i].Speed # NaNSpeed}
    IN  CHOOSE m \in {rows[i].Speed : i \in J} : \A i \in J : rows[i].Speed <= m

\* (variant for C6: the history keeps the weight of all sessions counted so far)
CurrentWeight_no_minus_one(total_sessions) == total_sessions

\* current_weight = baseline['total_sessions'] - 1, after the increment
CurrentWeight(total_sessions) == total_sessions - 1

\* new_weight = 1
NewWeight(rows) == 1

\* NewDataProcessor.update_baseline_with_new_data
update_baseline_with_new_data(baseline, rows) ==
    LET all == 1..Len(rows)
        total_sessions == baseline.total_sessions + 1
        new_drivers == SessionDrivers(rows)
        all_drivers == DOMAIN baseline.driver_records \cup new_drivers
        current_weight == CurrentWeight(total_sessions)
        new_weight == NewWeight(rows)
        total_weight == current_weight + new_weight
        avg == IF total_weight > 0
                 THEN RatDivInt(RatAdd(RatMulInt(baseline.field_avg_speed, current_weight),
                                       RatMulInt(MeanSpeed(rows, all), new_weight)),
                                total_weight)
                 ELSE baseline.field_avg_speed
        mx == IF total_weight > 0
                THEN Max(baseline.field_max_speed, MaxSpeed(rows, all))
                ELSE baseline.field_max_speed
        old(d) == IF d \in DOMAIN baseline.driver_records
                    THEN baseline.driver_records[d]
                    ELSE [total_sessions |-> 0, best_speed |-> 0]
    IN  [total_sessions |-> total_sessions,
         total_drivers |-> Cardinality(all_drivers),
         field_avg_speed |-> avg,
         field_max_speed |-> mx,
         driver_records |->
            [d \in all_drivers |->
                IF d \in new_drivers
                  THEN [total_sessions |-> old(d).total_sessions + 1,
                        best_speed |-> Max(old(d).best_speed,
                                           MaxSpeed(rows, DriverRows(rows, d)))]
                  ELSE baseline.driver_records[d]]]

\* NewDataProcessor.generate_comparison_report: baseline_avg_speed is in
\* tenths, -1 when performance_vs_baseline is left empty
generate_comparison_report(baseline, rows) ==
    [total_records |-> Len(rows),
     has_performance |-> RatLess(RatInt(0), baseline.field_avg_speed),
     baseline_avg_speed |->
        IF RatLess(RatInt(0), baseline.field_avg_speed)
          THEN RoundTenths(baseline.field_avg_speed) ELSE -1,
     new_session_avg_speed |->
        IF RatLess(RatInt(0), baseline.field_avg_speed)
          THEN RoundTenths(MeanSpeed(rows, 1..Len(rows))) ELSE -1,
     is_new_driver |->
        [d \in SessionDrivers(rows) |-> d \notin DOMAIN baseline.driver_records]]

NoReport == [total_records |-> -1]
IdleRun ==
    [pc |-> "idle", rows |-> <<>>, loaded |-> NoFile, baseline |-> NoFile,
     report |-> NoReport, result |-> "none"]

\* process_new_data_file: read_csv and validate_data_format, for a file of
\* at most max_rows rows
StartRunOf(r, max_rows) ==
    /\ run[r].pc = "idle"
    /\ load_or_create_baseline(baselineFile).total_sessions < MaxSessions
    /\ \E n \in 1..max_rows : \E rows \in [1..n -> SessionRow] :
          LET v == validate_data_format(SessionPattern(rows))
          IN  run' = [run EXCEPT ![r] =
                        IF v.valid
                          THEN [IdleRun EXCEPT !.pc = "validated", !.rows = rows]
                          ELSE [IdleRun EXCEPT !.pc = "returned", !.rows = rows,
                                               !.result = "validation_failed"]]
    /\ UNCHANGED <<baselineFile, history>>

StartRun(r) == StartRunOf(r, MaxSessionRows)

\* two calls started on files of at most MaxConcurrentRows rows
StartConcurrentRun(r) == StartRunOf(r, MaxConcurrentRows)

\* process_new_data_file: cleaner.clean_telemetry(file_path), which may raise
CleanRun(r) ==
    /\ run[r].pc = "validated"
    /\ \/ run' = [run EXCEPT ![r].pc = "cleaned"]
       \/ run' = [run EXCEPT ![r].pc = "returned", ![r].result = "error"]
    /\ UNCHANGED <<baselineFile, history>>

\* process_new_data_file: baseline = self.load_or_create_baseline(track_id)
LoadBaseline(r) ==
    /\ run[r].pc = "cleaned"
    /\ run' = [run EXCEPT ![r].pc = "loaded",
                          ![r].loaded = load_or_create_baseline(baselineFile),
                          ![r].baseline = load_or_create_baseline(baselineFile)]
    /\ UNCHANGED <<baselineFile, history>>

\* (variant for C7: the report is built from the baseline already updated)
BaselineForReport_updated(baseline, rows) == update_baseline_with_new_data(baseline, rows)

\* the baseline that process_new_data_file hands to generate_comparison_report:
\* the one just loaded, update_baseline_with_new_data runs after the report
BaselineForReport(baseline, rows) == baseline

\* process_new_data_file: comparison_report = generate_comparison_report(...)
GenerateReport(r) ==
    /\ run[r].pc = "loaded"
    /\ run' = [run EXCEPT ![r].pc = "reported",
                          ![r].report = generate_comparison_report(
                                BaselineForReport(run[r].baseline, run[r].rows), run[r].rows)]
    /\ UNCHANGED <<baselineFile, history>>

\* process_new_data_file: update_baseline_with_new_data mutates the baseline
UpdateBaseline(r) ==
    /\ run[r].pc = "reported"
    /\ run' = [run EXCEPT ![r].pc = "updated",
                          ![r].baseline = update_baseline_with_new_data(run[r].baseline, run[r].rows)]
    /\ UNCHANGED <<baselineFile, history>>

\* (variant for C24: the update is applied to the baseline file as it is at
\* the moment of saving)
SaveBaseline_merging(r) ==
    /\ run[r].pc = "updated"
    /\ baselineFile' = update_baseline_with_new_data(
                            load_or_create_baseline(baselineFile), run[r].rows)
    /\ history' = Append(history,
                         [avg |-> MeanSpeed(run[r].rows, 1..Len(run[r].rows)),
                          rows |-> Len(run[r].rows)])
    /\ run' = [run EXCEPT ![r].pc = "saved"]

\* process_new_data_file: json.dump(updated_baseline) to the baseline file
SaveBaseline(r) ==
    /\ run[r].pc = "updated"
    /\ baselineFile' = run[r].baseline
    /\ history' = Append(history,
                         [avg |-> MeanSpeed(run[r].rows, 1..Len(run[r].rows)),
                          rows |-> Len(run[r].rows)])
    /\ run' = [run EXCEPT ![r].pc = "saved"]

\* process_new_data_file: the upload to object storage, which may raise
UploadSession(r) ==
    /\ run[r].pc = "saved"
    /\ \/ run' = [run EXCEPT ![r].pc = "returned", ![r].result = "success"]
       \/ run' = [run EXCEPT ![r].pc = "returned", ![r].result = "error"]
    /\ UNCHANGED <<baselineFile, history>>

\* the caller has the result; the processor is ready for the next file
FinishRun(r) ==
    /\ run[r].pc = "returned"
    /\ run' = [run EXCEPT ![r] = IdleRun]
    /\ UNCHANGED <<baselineFile, history>>

BaselineStart ==
    /\ baselineFile = NoFile
    /\ run = [r \in RunIds |-> IdleRun]
    /\ history = <<>>

(***************************************************************************)
(* Dashboard Version Manager: src/dashboard/version_manager.py             *)
(***************************************************************************)
\* bound: records in the version log
MaxLog == 3
\* bound: seconds the wall clock advances
MaxClock == 1

\* contents the hand-authored dashboard file takes; Absent: no such file
Absent == "absent"
Contents == {"html-A", "html-B"}
CreateNames == {"v1"}
RollbackNames == {"v1", "backup_before_rollback"}
VmIds == {1, 2}

NoLog == [exists |-> FALSE, versions |-> <<>>]
NoTarget == [version_name |-> "", filename |-> "", is_working |-> FALSE, timestamp |-> -1]
NoPre == [live |-> Absent, snapshots |-> <<>>, versionLog |-> NoLog]

\* f"track_dashboard_{version_name}_{status}_{timestamp}.html"
version_filename(version_name, is_working, timestamp) ==
    "track_dashboard_" \o version_name \o "_"
        \o (IF is_working THEN "working" ELSE "broken") \o "_"
        \o ToString(timestamp) \o ".html"

\* shutil.copy2(src, dst) into the versions directory
WriteFile(files, name, content) ==
    [f \in DOMAIN files \cup {name} |-> IF f = name THEN content ELSE files[f]]

RemoveFile(files, name) == [f \in DOMAIN files \ {name} |-> files[f]]

\* (variant for C10: the existence of the snapshot file is not checked)
RollbackTarget_unchecked(versions, files, version_name) ==
    LET hits == {i \in 1..Len(versions) : versions[i].version_name = version_name}
    IN  IF hits = {} THEN NoTarget
        ELSE versions[CHOOSE i \in hits : \A j \in hits : i <= j]

\* rollback_to_version: the first record of the log with the name, provided
\* its file exists; NoTarget when rollback returns False
RollbackTarget(versions, files, version_name) ==
    LET hits == {i \in 1..Len(versions) : versions[i].version_name = version_name}
        first == versions[CHOOSE i \in hits : \A j \in hits : i <= j]
    IN  IF hits = {} THEN NoTarget
        ELSE IF first.filename \notin DOMAIN files THEN NoTarget
        ELSE first

IdleVm ==
    [pc |-> "idle", op |-> "none", name |-> "", cname |-> "", is_working |-> FALSE,
     timestamp |-> -1, versions |-> <<>>, target |-> NoTarget, result |-> "none",
     pre |-> NoPre]

Snapshot == [live |-> live, snapshots |-> snapshots, versionLog |-> versionLog]

\* main: create <version_name>; create_version takes its timestamp
StartCreate(p) ==
    /\ vm[p].pc = "idle"
    /\ Len(versionLog.versions) < MaxLog
    /\ \E n \in CreateNames :
          vm' = [vm EXCEPT ![p] = [IdleVm EXCEPT !.pc = "copy", !.op = "create",
                                                 !.name = n, !.cname = n,
                                                 !.is_working = TRUE,
                                                 !.timestamp = clock,
                                                 !.pre = Snapshot]]
    /\ UNCHANGED <<live, snapshots, versionLog, clock>>

\* main: rollback <version_name>
StartRollback(p) ==
    /\ vm[p].pc = "idle"
    /\ Len(versionLog.versions) < MaxLog
    /\ \E n \in RollbackNames :
          vm' = [vm EXCEPT ![p] = [IdleVm EXCEPT !.pc = "find", !.op = "rollback",
                                                 !.name = n, !.pre = Snapshot]]
    /\ UNCHANGED <<live, snapshots, versionLog, clock>>

\* rollback_to_version: read the log, find the version, check its file; on
\* success call create_version("backup_before_rollback", ..., False)
FindVersion(p) ==
    /\ vm[p].pc = "find"
    /\ LET target == IF versionLog.exists
                       THEN RollbackTarget(versionLog.versions, snapshots, vm[p].name)
                       ELSE NoTarget
       IN  vm' = [vm EXCEPT ![p] =
                    IF target = NoTarget
                      THEN [@ EXCEPT !.pc = "returned", !.result = "False"]
                      ELSE [@ EXCEPT !.pc = "copy", !.target = target,
                                     !.cname = "backup_before_rollback",
                                     !.is_working = FALSE,
                                     !.timestamp = clock]]
    /\ UNCHANGED <<live, snapshots, versionLog, clock>>

\* create_version: copy the current dashboard into the versions directory,
\* or return None when there is no current dashboard
CopyDashboard(p) ==
    /\ vm[p].pc = "copy"
    /\ IF live # Absent
         THEN /\ snapshots' = WriteFile(snapshots,
                                 version_filename(vm[p].cname, vm[p].is_working, vm[p].timestamp),
                                 live)
              /\ vm' = [vm EXCEPT ![p].pc = "log_read"]
         ELSE /\ snapshots' = snapshots
              /\ vm' = [vm EXCEPT ![p] =
                          IF vm[p].op = "create"
                            THEN [@ EXCEPT !.pc = "returned", !.result = "None"]
                            ELSE [@ EXCEPT !.pc = "restore"]]
    /\ UNCHANGED <<live, versionLog, clock>>

\* _update_version_log: read the log when it exists
ReadVersionLog(p) ==
    /\ vm[p].pc = "log_read"
    /\ vm' = [vm EXCEPT ![p].pc = "log_write",
                        ![p].versions = IF versionLog.exists THEN versionLog.versions ELSE <<>>]
    /\ UNCHANGED <<live, snapshots, versionLog, clock>>

\* the record create_version hands to _update_version_log
VersionRecord(p) ==
    [version_name |-> vm[p].cname,
     filename |-> version_filename(vm[p].cname, vm[p].is_working, vm[p].timestamp),
     is_working |-> vm[p].is_working,
     timestamp |-> vm[p].timestamp]

\* (variant for C23: the record is appended to the log as it is at the
\* moment of writing)
WriteVersionLog_atomic(p) ==
    /\ vm[p].pc = "log_write"
    /\ versionLog' =
          [exists |-> TRUE, versions |-> Append(versionLog.versions, VersionRecord(p))]
    /\ vm' = [vm EXCEPT ![p] =
                IF vm[p].op = "create"
                  THEN [@ EXCEPT !.pc = "returned", !.result = "path"]
                  ELSE [@ EXCEPT !.pc = "restore"]]
    /\ UNCHANGED <<live, snapshots, clock>>

\* _update_version_log: append the record and write the log back;
\* create_version returns the path
WriteVersionLog(p) ==
    /\ vm[p].pc = "log_write"
    /\ versionLog' =
          [exists |-> TRUE,
           versions |-> Append(vm[p].versions,
                          [version_name |-> vm[p].cname,
                           filename |-> version_filename(vm[p].cname, vm[p].is_working, vm[p].timestamp),
                           is_working |-> vm[p].is_working,
                           timestamp |-> vm[p].timestamp])]
    /\ vm' = [vm EXCEPT ![p] =
                IF vm[p].op = "create"
                  THEN [@ EXCEPT !.pc = "returned", !.result = "path"]
                  ELSE [@ EXCEPT !.pc = "restore"]]
    /\ UNCHANGED <<live, snapshots, clock>>

\* rollback_to_version: shutil.copy2(version_file, current_dashboard), which
\* raises when the version file is gone
RestoreDashboard(p) ==
    /\ vm[p].pc = "restore"
    /\ IF vm[p].target.filename \in DOMAIN snapshots
         THEN /\ live' = snapshots[vm[p].target.filename]
              /\ vm' = [vm EXCEPT ![p].pc = "returned", ![p].result = "True"]
         ELSE /\ live' = live
              /\ vm' = [vm EXCEPT ![p].pc = "returned", ![p].result = "raised"]
    /\ UNCHANGED <<snapshots, versionLog, clock>>

\* the command has ended
FinishCommand(p) ==
    /\ vm[p].pc = "returned"
    /\ vm' = [vm EXCEPT ![p] = IdleVm]
    /\ UNCHANGED <<live, snapshots, versionLog, clock>>

NoCommandRunning == \A p \in VmIds : vm[p].pc = "idle"

\* the user edits (or recreates) the dashboard file between commands
EditDashboard ==
    /\ NoCommandRunning
    /\ \E c \in Contents : c # live /\ live' = c
    /\ UNCHANGED <<snapshots, versionLog, clock, vm>>

\* the user removes the dashboard file between commands
RemoveDashboard ==
    /\ NoCommandRunning
    /\ live # Absent
    /\ live' = Absent
    /\ UNCHANGED <<snapshots, versionLog, clock, vm>>

\* the user removes a snapshot file between commands
RemoveSnapshot ==
    /\ NoCommandRunning
    /\ \E f \in DOMAIN snapshots : snapshots' = RemoveFile(snapshots, f)
    /\ UNCHANGED <<live, versionLog, clock, vm>>

\* a second passes while commands are running
TimePasses ==
    /\ ~NoCommandRunning
    /\ clock < MaxClock
    /\ clock' = clock + 1
    /\ UNCHANGED <<live, snapshots, versionLog, vm>>

\* a second passes between commands
Tick ==
    /\ NoCommandRunning
    /\ clock < MaxClock
    /\ clock' = clock + 1
    /\ UNCHANGED <<live, snapshots, versionLog, vm>>

VersionsStart ==
    /\ live = "html-A"
    /\ snapshots = <<>>
    /\ versionLog = NoLog
    /\ clock = 0
    /\ vm = [p \in VmIds |-> IdleVm]

(***************************************************************************)
(* Resource Cleanup Tool: src/scripts/aws_cleanup.py                       *)
(***************************************************************************)
\* what the operator types at a prompt is a sequence of characters; a word
\* stands for its characters, Space for a whitespace character
Space == " "
EndOfInput == <<"^D">>
StageAnswers == {<<>>, <<"prod">>, <<Space, "prod">>, EndOfInput}
ConfirmAnswers ==
    {<<"DELETE">>, <<Space, "DELETE", Space>>, <<"delete">>, <<>>,
     <<"dev">>, <<"prod">>, <<"prod", Space>>, EndOfInput}
CleanupSteps == {"backup", "empty_bucket", "remove_stack", "orphans"}
StepOutcomes == {"ok", "error"}

\* str.strip()
RECURSIVE lstrip(_)
lstrip(a) == IF a # <<>> /\ Head(a) = Space THEN lstrip(Tail(a)) ELSE a

RECURSIVE rstrip(_)
rstrip(a) ==
    IF a # <<>> /\ a[Len(a)] = Space THEN rstrip(SubSeq(a, 1, Len(a) - 1)) ELSE a

strip(a) == rstrip(lstrip(a))

\* input(...).strip() or 'dev'
StageOrDefault(a) == IF strip(a) = <<>> THEN <<"dev">> ELSE strip(a)

\* confirm_cleanup, first prompt: confirm1 != 'DELETE' cancels
DeleteConfirmed(a) == strip(a) = <<"DELETE">>

\* (variant for C11: any non-empty answer to the stage prompt is accepted)
StageConfirmed_nonempty(a, stg) == strip(a) # <<>>

\* confirm_cleanup, second prompt: confirm2 != self.stage cancels
StageConfirmed(a, stg) == strip(a) = stg

IdleCleanup ==
    [pc |-> "main", stage |-> <<>>, confirm1 |-> <<>>, confirm2 |-> <<>>,
     confirmed |-> FALSE, performed |-> {}, errors |-> {},
     success |-> "none", exit_status |-> -1]

\* an exception nothing catches ends the process with a traceback
Uncaught(c) == [c EXCEPT !.pc = "exited", !.exit_status = 1]

\* main: the stage and region prompts, then GRCupAWSCleanup(stage, region)
MainPrompts ==
    /\ cleanup.pc = "main"
    /\ \E a \in StageAnswers :
          cleanup' = IF a = EndOfInput THEN Uncaught(cleanup)
                     ELSE [cleanup EXCEPT !.pc = "confirm1",
                                          !.stage = StageOrDefault(a)]

\* confirm_cleanup: the DELETE prompt
ConfirmDelete ==
    /\ cleanup.pc = "confirm1"
    /\ \E a \in ConfirmAnswers :
          cleanup' =
            IF a = EndOfInput THEN Uncaught(cleanup)
            ELSE IF ~DeleteConfirmed(a)
                 THEN [cleanup EXCEPT !.pc = "main_return", !.confirm1 = a,
                                      !.success = "False"]
                 ELSE [cleanup EXCEPT !.pc = "confirm2", !.confirm1 = a]

\* confirm_cleanup: the stage prompt
ConfirmStage ==
    /\ cleanup.pc = "confirm2"
    /\ \E a \in ConfirmAnswers :
          cleanup' =
            IF a = EndOfInput THEN Uncaught(cleanup)
            ELSE IF ~StageConfirmed(a, cleanup.stage)
                 THEN [cleanup EXCEPT !.pc = "main_return", !.confirm2 = a,
                                      !.success = "False"]
                 ELSE [cleanup EXCEPT !.pc = "backup", !.confirm2 = a,
                                      !.confirmed = TRUE]

\* a step of run_cleanup whose own try/except records a failure in
\* cleanup_report['errors'] and lets the run go on
RunStep(step, next, outcome) ==
    [cleanup EXCEPT !.pc = next,
                    !.performed = @ \cup {step},
                    !.errors = IF outcome = "error" THEN @ \cup {step} ELSE @]

\* backup_important_data; mkdir of the backup directory is outside the try
BackupImportantData ==
    /\ cleanup.pc = "backup"
    /\ \E outcome \in StepOutcomes \cup {"mkdir_raises"} :
          cleanup' = IF outcome = "mkdir_raises" THEN Uncaught(cleanup)
                     ELSE RunStep("backup", "empty_bucket", outcome)

\* empty_s3_bucket; a bucket that does not exist is skipped without an error
EmptyS3Bucket ==
    /\ cleanup.pc = "empty_bucket"
    /\ \E outcome \in StepOutcomes \cup {"no_such_bucket"} :
          cleanup' = RunStep("empty_bucket", "remove_stack", outcome)

\* remove_serverless_stack; non-zero return code, timeout and any other
\* exception are recorded as errors
RemoveServerlessStack ==
    /\ cleanup.pc = "remove_stack"
    /\ \E outcome \in StepOutcomes :
          cleanup' = RunStep("remove_stack", "orphans", outcome)

\* cleanup_remaining_resources; failures are only logged as warnings
CleanupRemainingResources ==
    /\ cleanup.pc = "orphans"
    /\ \E outcome \in {"ok", "warning"} :
          cleanup' = RunStep("orphans", "report", outcome)

\* estimate_cost_savings, generate_cleanup_report, return True
GenerateCleanupReport ==
    /\ cleanup.pc = "report"
    /\ \E outcome \in {"ok", "open_raises"} :
          cleanup' = IF outcome = "open_raises" THEN Uncaught(cleanup)
                     ELSE [cleanup EXCEPT !.pc = "main_return",
                                          !.success = "True"]

\* main: prints the outcome and returns; nothing calls sys.exit
MainReturn ==
    /\ cleanup.pc = "main_return"
    /\ cleanup' = [cleanup EXCEPT !.pc = "exited", !.exit_status = 0]

CleanupStart == cleanup = IdleCleanup

(***************************************************************************)
(* Telemetry replay channel: src/src/api/main.py, telemetry_stream         *)
(***************************************************************************)
\* bound: the largest lap number in a cleaned table that has a lap column
MaxStreamLap == 3
\* bound: rows of a cleaned table that has a lap column
MaxStreamRows == 2

\* max_lap when the table has no lap column
DefaultMaxLap == 30
\* df.head(100)
HeadRows == 100

NaNLap == -1
LapCells == (0..MaxStreamLap) \cup {NaNLap}
StreamTracks == {"BMP", "XXX"}
ConfiguredTracks == {"BMP"}
\* row counts of the tables without a lap column
NoLapRowCounts == {1, 100, 101, 250}

\* the cleaned CSV of the track, sorted by timestamp: absent, or a table with
\* n rows and, when it has a lap column, the lap cell of each row
NoTable == [exists |-> FALSE, has_lap |-> FALSE, n |-> 0, lap |-> <<>>]
LapTables ==
    {[exists |-> TRUE, has_lap |-> TRUE, n |-> Len(l), lap |-> l] :
        l \in UNION {[1..k -> LapCells] : k \in 0..MaxStreamRows}}
NoLapTables ==
    {[exists |-> TRUE, has_lap |-> FALSE, n |-> k, lap |-> <<>>] :
        k \in NoLapRowCounts}
StreamTables == {NoTable} \cup LapTables \cup NoLapTables

\* df['lap'].max() if 'lap' in df.columns else 30; max() skips NaN and is NaN
\* when every cell is NaN
MaxLapOf(t) ==
    IF ~t.has_lap THEN DefaultMaxLap
    ELSE LET cells == {t.lap[i] : i \in 1..t.n} \ {NaNLap}
         IN  IF cells = {} THEN NaNLap
             ELSE CHOOSE m \in cells : \A c \in cells : c <= m

\* current_lap <= max_lap; a comparison with NaN is False
LapInRange(current_lap, max_lap) == max_lap # NaNLap /\ current_lap <= max_lap

\* df[df['lap'] == current_lap] if 'lap' in df.columns else df.head(100),
\* as the set of row positions selected
LapData(t, current_lap) ==
    IF t.has_lap THEN {i \in 1..t.n : t.lap[i] = current_lap}
    ELSE 1..Min(HeadRows, t.n)

\* (variant for C13: the cursor advances only after a message was sent)
NextLap_only_after_send(current_lap, lap_data) ==
    IF lap_data # {} THEN current_lap + 1 ELSE current_lap

\* current_lap += 1, at the end of every iteration that did not break
NextLap(current_lap, lap_data) == current_lap + 1

IdleStream ==
    [pc |-> "idle", track_id |-> "", table |-> NoTable, connected |-> FALSE,
     current_lap |-> 0, max_lap |-> 0, sent |-> <<>>, ended |-> "none"]

\* a client opens /ws/telemetry/{track_id}; an unknown track is closed with
\* code 4000 before the connection is accepted
StreamConnect ==
    /\ ws.pc = "idle"
    /\ \E track_id \in StreamTracks, t \in StreamTables :
          ws' = IF track_id \notin ConfiguredTracks
                THEN [ws EXCEPT !.pc = "closed", !.track_id = track_id,
                                !.ended = "invalid_track"]
                ELSE [ws EXCEPT !.pc = "load", !.track_id = track_id,
                                !.table = t, !.connected = TRUE]

\* the client goes away while the handler runs
ClientDisconnect ==
    /\ ws.pc \in {"load", "loop"}
    /\ ws.connected
    /\ ws' = [ws EXCEPT !.connected = FALSE]

\* lines 324-348: missing file and empty table are answered with an error
\* message; otherwise the cursor starts at lap 1
StreamLoad ==
    /\ ws.pc = "load"
    /\ ws' =
         IF ~ws.table.exists \/ ws.table.n = 0
         THEN [ws EXCEPT !.pc = "finally",
                         !.ended = IF ~ws.connected THEN "disconnect"
                                   ELSE IF ~ws.table.exists THEN "no_data"
                                   ELSE "empty_dataset"]
         ELSE [ws EXCEPT !.pc = "loop", !.current_lap = 1,
                         !.max_lap = MaxLapOf(ws.table)]

\* one iteration of the while loop, lines 350-412
StreamLap ==
    /\ ws.pc = "loop"
    /\ LapInRange(ws.current_lap, ws.max_lap)
    /\ \E outcome \in {"ok", "error"} :
         LET lap_data == LapData(ws.table, ws.current_lap)
         IN  ws' =
               IF lap_data # {} /\ outcome = "error"
               THEN [ws EXCEPT !.pc = "finally", !.ended = "error"]
               ELSE IF lap_data # {} /\ ~ws.connected
               THEN [ws EXCEPT !.pc = "finally", !.ended = "disconnect"]
               ELSE [ws EXCEPT
                       !.sent = IF lap_data = {} THEN @
                                ELSE Append(@, [current_lap |-> ws.current_lap,
                                                max_lap |-> ws.max_lap,
                                                rows |-> lap_data]),
                       !.current_lap = NextLap(ws.current_lap, lap_data)]

\* the while condition fails: the cursor has passed the last lap
StreamExhausted ==
    /\ ws.pc = "loop"
    /\ ~LapInRange(ws.current_lap, ws.max_lap)
    /\ ws' = [ws EXCEPT !.pc = "finally", !.ended = "exhausted"]

\* finally: manager.disconnect(websocket)
StreamFinally ==
    /\ ws.pc = "finally"
    /\ ws' = [ws EXCEPT !.pc = "closed"]

StreamStart == ws = IdleStream

(***************************************************************************)
(* Analytics API, prediction and strategy routes: src/src/api/main.py      *)
(***************************************************************************)
ArtifactStates == {"ok", "missing"}
MetricsStates == {"absent", "ok", "corrupt"}
ApiTracks == {"BMP", "XXX"}
ApiConfiguredTracks == {"BMP"}
\* PitWindowRequest.max_laps
RequestMaxLaps == {0, 30}

\* TireDegradationModel.load_model: is_trained is set as soon as model and
\* scaler are loaded; reading training_metrics.json comes after it, and any
\* exception makes load_model return False
load_model(artifacts, metrics) ==
    IF artifacts # "ok" THEN [is_trained |-> FALSE, returned |-> FALSE]
    ELSE [is_trained |-> TRUE, returned |-> metrics # "corrupt"]

ApiDown ==
    [started |-> FALSE, is_trained |-> FALSE, pit_optimizer |-> FALSE,
     load_failed |-> FALSE, responses |-> {}]

Response(route, track_id, valid, status) ==
    [route |-> route, track_id |-> track_id, valid |-> valid, status |-> status]

\* startup_event
StartupEvent ==
    /\ ~api.started
    /\ \E artifacts \in ArtifactStates, metrics \in MetricsStates :
         LET loaded == load_model(artifacts, metrics)
         IN  api' = [api EXCEPT !.started = TRUE,
                                !.is_trained = loaded.is_trained,
                                !.pit_optimizer = loaded.returned,
                                !.load_failed = ~loaded.returned]

\* POST /predict/lap-time; a body that does not fit LapTimePredictionRequest
\* is answered 422 before the handler runs
predict_lap_time_status(is_trained, track_id, valid, outcome) ==
    IF ~valid THEN 422
    ELSE IF ~is_trained THEN 503
    ELSE IF track_id \notin ApiConfiguredTracks THEN 400
    ELSE IF outcome = "error" THEN 500
    ELSE 200

PredictLapTimeRoute ==
    /\ api.started
    /\ \E track_id \in ApiTracks, valid \in BOOLEAN, outcome \in {"ok", "error"} :
          api' = [api EXCEPT !.responses = @ \cup
                    {Response("/predict/lap-time", track_id, valid,
                        predict_lap_time_status(api.is_trained, track_id, valid, outcome))}]

\* POST /strategy/pit-window; request.current_lap / request.max_laps raises
\* inside the try when max_laps is 0
calculate_pit_window_status(pit_optimizer, track_id, valid, max_laps) ==
    IF ~valid THEN 422
    ELSE IF ~pit_optimizer THEN 503
    ELSE IF track_id \notin ApiConfiguredTracks THEN 400
    ELSE IF max_laps = 0 THEN 500
    ELSE 200

CalculatePitWindowRoute ==
    /\ api.started
    /\ \E track_id \in ApiTracks, valid \in BOOLEAN, max_laps \in RequestMaxLaps :
          api' = [api EXCEPT !.responses = @ \cup
                    {Response("/strategy/pit-window", track_id, valid,
                        calculate_pit_window_status(api.pit_optimizer, track_id, valid, max_laps))}]

ApiStart == api = ApiDown

(***************************************************************************)
(* Standalone Prediction Function: src/src/api/lambda_handler.py           *)
(***************************************************************************)
\* bound: invocations of the function within one process
MaxInvocations == 3

ModelObjects == {"absent", "model-1", "model-2"}
ScalerObjects == {"absent", "corrupt", "scaler-1"}
FnMethods == {"OPTIONS", "POST", "GET"}
FnPaths == {"/predict/lap-time", "/strategy/pit-window", "/health", "/other"}
FnBodies == {"missing", "not_json", "json"}
NoModel == "None"
NoResponse == [method |-> "", status |-> 0]

\* the module-level globals of a fresh process, and the two S3 objects
ColdProcess ==
    [tire_model |-> NoModel, scaler |-> NoModel, model_loaded |-> FALSE,
     s3_model |-> "model-1", s3_scaler |-> "scaler-1",
     downloads |-> 0, invocations |-> 0, last |-> NoResponse]

\* (variant for C18: the loaded flag is not consulted)
AlreadyLoaded_never(f) == FALSE

\* load_model: if model_loaded: return True
AlreadyLoaded(f) == f.model_loaded

\* load_model: the globals after the call and the value returned.  The
\* downloads come first; tire_model is assigned before the scaler is read
load_model_fn(f) ==
    IF AlreadyLoaded(f) THEN [f |-> f, returned |-> TRUE]
    ELSE IF f.s3_model = "absent"
         THEN [f |-> f, returned |-> FALSE]
    ELSE IF f.s3_scaler = "absent"
         THEN [f |-> [f EXCEPT !.downloads = @ + 1], returned |-> FALSE]
    ELSE IF f.s3_scaler = "corrupt"
         THEN [f |-> [f EXCEPT !.downloads = @ + 2, !.tire_model = f.s3_model],
               returned |-> FALSE]
    ELSE [f |-> [f EXCEPT !.downloads = @ + 2, !.tire_model = f.s3_model,
                          !.scaler = f.s3_scaler, !.model_loaded = TRUE],
          returned |-> TRUE]

\* lambda_handler: the status code answered once load_model has returned
fn_status(loaded, method, path, body, outcome) ==
    IF ~loaded THEN 503
    ELSE IF method = "OPTIONS" THEN 200
    ELSE IF body # "json" THEN 500
    ELSE IF path = "/predict/lap-time"
         THEN (IF outcome = "error" THEN 500 ELSE 200)
    ELSE IF path \in {"/strategy/pit-window", "/health"} THEN 200
    ELSE 500

\* one invocation of lambda_handler
InvokeFunction ==
    /\ fn.invocations < MaxInvocations
    /\ \E method \in FnMethods, path \in FnPaths, body \in FnBodies,
          outcome \in {"ok", "error"} :
         LET l == load_model_fn(fn)
         IN  fn' = [l.f EXCEPT
                      !.invocations = @ + 1,
                      !.last = [method |-> method,
                                status |-> fn_status(l.returned, method, path,
                                                     body, outcome)]]

\* the model artifacts in the bucket are replaced or removed
PutArtifacts ==
    \E m \in ModelObjects, s \in ScalerObjects :
        /\ <<m, s>> # <<fn.s3_model, fn.s3_scaler>>
        /\ fn' = [fn EXCEPT !.s3_model = m, !.s3_scaler = s]

FunctionStart == fn = ColdProcess

(***************************************************************************)
(* Telemetry Analytics Dashboard API, Lambda handlers:                     *)
(* src/aws_deployment/src/api/fixed_main.py and enhanced_main.py           *)
(***************************************************************************)
\* the seven tracks of the /tracks directory and of the demo table
DashboardTracks == {"BMP", "COTA", "VIR", "SEB", "SON", "RA", "INDY"}
\* track ids as they appear in request paths and object keys
PathIds == {"bmp", "BMP", "XXX"}
StoredIds == {"BMP", "XXX"}
\* processed-telemetry/<id>_telemetry_clean.csv: absent, a CSV with valid
\* speed rows, or content from which no analytics can be computed
ObjectStates == {"absent", "telemetry", "unusable"}
DashMethods == {"GET", "OPTIONS"}
\* request paths, split at '/'
DashPaths ==
    {<<>>, <<"health">>, <<"nowhere">>} \cup
    {<<"analytics", id>> : id \in PathIds} \cup
    {<<"drivers", id>> : id \in PathIds}

\* str.upper()
upper(id) == IF id = "bmp" THEN "BMP" ELSE id

\* path.split('/')[-1].upper()
PathTrackId(path) == upper(path[Len(path)])

DashResponse(variant, method, path, status, data_source) ==
    [variant |-> variant, method |-> method, path |-> path,
     status |-> status, data_source |-> data_source]

\* get_s3_data followed by parse_csv_data / parse_telemetry_data: the
\* analytics, or None when the object is missing or yields nothing
RealAnalytics(store, track_id) ==
    track_id \in DOMAIN store /\ store[track_id] = "telemetry"

\* fixed_main.lambda_handler
fixed_handler(store, method, path) ==
    IF method = "OPTIONS" THEN DashResponse("fixed", method, path, 200, "none")
    ELSE IF path = <<>> \/ path = <<"health">>
         THEN DashResponse("fixed", method, path, 200, "none")
    ELSE IF path[1] = "analytics"
         THEN IF RealAnalytics(store, PathTrackId(path))
              THEN DashResponse("fixed", method, path, 200, "real_telemetry")
              ELSE IF PathTrackId(path) \in DashboardTracks
              THEN DashResponse("fixed", method, path, 200, "demo_data")
              ELSE DashResponse("fixed", method, path, 404, "none")
    ELSE DashResponse("fixed", method, path, 404, "none")

\* enhanced_main.lambda_handler
enhanced_handler(store, method, path) ==
    IF method = "OPTIONS" THEN DashResponse("enhanced", method, path, 200, "none")
    ELSE IF path = <<>> \/ path = <<"health">>
         THEN DashResponse("enhanced", method, path, 200, "none")
    ELSE IF path[1] \in {"analytics", "drivers"}
         THEN IF RealAnalytics(store, PathTrackId(path))
              THEN DashResponse("enhanced", method, path, 200, "real_telemetry")
              ELSE DashResponse("enhanced", method, path, 404, "none")
    ELSE DashResponse("enhanced", method, path, 404, "none")

NoDashResponse == DashResponse("", "", <<>>, 0, "none")

\* get_s3_data for the track id of the path: the state of the object the
\* handler finds under processed-telemetry/ (absent when there is none)
ObjectRead(store, path) ==
    IF Len(path) = 2 /\ PathTrackId(path) \in DOMAIN store
    THEN store[PathTrackId(path)]
    ELSE "absent"

\* a request to the fixed handler
FixedRequest ==
    \E method \in DashMethods, path \in DashPaths :
        dash' = [dash EXCEPT !.last = fixed_handler(dash.store, method, path),
                              !.seen = ObjectRead(dash.store, path)]

\* a request to the enhanced handler
EnhancedRequest ==
    \E method \in DashMethods, path \in DashPaths :
        dash' = [dash EXCEPT !.last = enhanced_handler(dash.store, method, path),
                              !.seen = ObjectRead(dash.store, path)]

\* an object under processed-telemetry/ is written or deleted
PutObject ==
    \E id \in StoredIds, o \in ObjectStates :
        /\ dash.store[id] # o
        /\ dash' = [dash EXCEPT !.store[id] = o]

\* seen is the object the last request found in the bucket
DashboardStart ==
    dash = [store |-> [id \in StoredIds |-> "absent"],
            seen |-> "absent",
            last |-> NoDashResponse]

(***************************************************************************)
(* Telemetry Ingestion Trigger Function:                                   *)
(* src/aws_deployment/src/processors/telemetry_processor.py                *)
(***************************************************************************)
\* an object key is the sequence of its '/'-separated parts; the last part
\* is the filename (empty for a folder placeholder)
RawPrefix == "raw-telemetry"
ProcessedPrefix == "processed-telemetry"
KeyTails ==
    {<<"BMP.csv">>, <<"BMP", "lap.csv">>, <<"raw-telemetry", "BMP.csv">>,
     <<"my-raw-telemetry", "BMP.csv">>, <<"raw-telemetry">>, <<"">>}
\* the keys the bucket notification fires for: the function is subscribed to
\* objects created under raw-telemetry/
EventKeys == {<<RawPrefix>> \o t : t \in KeyTails}
TriggerOutcomes == {"get_object_fails", "processing_fails", "table_fails", "ok"}

\* what 'raw-telemetry/' -> 'processed-telemetry/' does to one part of a key
\* that is followed by a '/'
ReplaceInPart(part) ==
    IF part = "raw-telemetry" THEN "processed-telemetry"
    ELSE IF part = "my-raw-telemetry" THEN "my-processed-telemetry"
    ELSE part

\* (variant for C19: the output is named after the track, not after the file)
processed_key_by_track(key) == <<ProcessedPrefix, "BMP_telemetry_clean.csv">>

\* key.replace('raw-telemetry/', 'processed-telemetry/'): every occurrence is
\* replaced; the filename is not followed by a '/'
processed_key(key) ==
    [i \in 1..Len(key) |-> IF i < Len(key) THEN ReplaceInPart(key[i]) ELSE key[i]]

Filename(key) == key[Len(key)]

\* last: the latest invocation, whether it wrote the processed object and
\* recorded the metadata row, and the status code it returned
NoInvocation ==
    [event_key |-> <<>>, written |-> FALSE, recorded |-> FALSE, statusCode |-> 0]

IdleTrigger ==
    [objects |-> {}, pending |-> {}, writes |-> {}, status |-> 0,
     last |-> NoInvocation]

\* a file is uploaded under raw-telemetry/ and the notification is queued
UploadRaw ==
    \E key \in EventKeys :
        /\ key \notin tp.objects
        /\ tp' = [tp EXCEPT !.objects = @ \cup {key}, !.pending = @ \cup {key}]

\* lambda_handler for one event.  Output is written at lines 43-48; the
\* metadata put_item that follows can still fail, and every exception is
\* answered with statusCode 500
HandleStorageEvent ==
    \E key \in tp.pending, outcome \in TriggerOutcomes :
        tp' = IF outcome \in {"get_object_fails", "processing_fails"}
              THEN [tp EXCEPT !.pending = @ \ {key}, !.status = 500,
                              !.last = [event_key |-> key, written |-> FALSE,
                                        recorded |-> FALSE, statusCode |-> 500]]
              ELSE [tp EXCEPT
                      !.pending = @ \ {key},
                      !.objects = @ \cup {processed_key(key)},
                      !.writes = @ \cup {[event_key |-> key,
                                          processed_key |-> processed_key(key)]},
                      !.status = IF outcome = "ok" THEN 200 ELSE 500,
                      !.last = [event_key |-> key, written |-> TRUE,
                                recorded |-> outcome = "ok",
                                statusCode |-> IF outcome = "ok" THEN 200 ELSE 500]]

TriggerStart == tp = IdleTrigger

(***************************************************************************)
(* Model Training Script: src/scripts/train_model.py                       *)
(***************************************************************************)
\* bound: laps in one track's telemetry
MaxTrainLaps == 2

TrainTracks == {"BMP", "COTA"}
NaNAvgSpeed == -1
\* a lap of a track's telemetry: its number, how many samples it has, the
\* seconds between its first and last sample, and its mean Speed
LapNumbers == 0..2
LapShapes ==
    {s \in [points : {5, 10}, seconds : {20, 90}, speed : {150, NaNAvgSpeed}] :
        (s.points = 5 \/ s.seconds = 20) => s.speed = 150}
TelemetryLap(n, s) ==
    [lap |-> n, points |-> s.points, seconds |-> s.seconds, speed |-> s.speed]
LapSets ==
    UNION {{{TelemetryLap(n, f[n]) : n \in ns} : f \in [ns -> LapShapes]} :
           ns \in {ns \in SUBSET LapNumbers : Cardinality(ns) <= MaxTrainLaps}}
\* what load_all_tracks gives for a track: nothing when its folder is missing,
\* else the laps of its telemetry (none when the telemetry is empty)
NoFolder == [folder |-> FALSE, laps |-> {}]
TrackTelemetry ==
    {NoFolder} \cup {[folder |-> TRUE, laps |-> ls] : ls \in LapSets}

\* calculate_lap_times_from_telemetry: laps numbered above 0 with at least
\* 10 samples and a duration strictly between 30 and 300 seconds
ValidLap(l) == l.lap > 0 /\ l.points >= 10 /\ 30 < l.seconds /\ l.seconds < 300

\* prepare_training_data: one row per valid lap of every loaded track
TrainingRows(tracks) ==
    UNION {{[track |-> t, lap_number |-> l.lap, Speed |-> l.speed] :
                l \in {m \in tracks[t].laps : ValidLap(m)}} :
           t \in {u \in TrainTracks : tracks[u].folder}}

\* prepare_features: track_avg_speed is the mean Speed of the track's rows
\* (NaN when none has a Speed), and dropna removes the rows where it is NaN
FeatureRows(rows) ==
    {r \in rows : \E q \in rows : q.track = r.track /\ q.Speed # NaNAvgSpeed}

IdleTraining ==
    [pc |-> "main", tracks |-> [t \in TrainTracks |-> NoFolder],
     training_df |-> {}, features_df |-> {}, outcome |-> "none",
     exit_status |-> -1]

\* main() returns and the interpreter ends: nothing calls sys.exit, so the
\* status is 0 whatever main logged
ReturnStatus(outcome) == 0

\* main, lines 123-129: prepare_training_data; an exception is logged and
\* raised again, which ends the process with a traceback
PrepareTrainingData ==
    /\ train.pc = "main"
    /\ \E tracks \in [TrainTracks -> TrackTelemetry], loader \in {"ok", "raises"} :
          train' =
            IF loader = "raises"
            THEN [train EXCEPT !.pc = "exited", !.outcome = "raised",
                               !.exit_status = 1]
            ELSE IF TrainingRows(tracks) = {}
            THEN [train EXCEPT !.pc = "exited", !.tracks = tracks,
                               !.outcome = "no_training_data",
                               !.exit_status = ReturnStatus("no_training_data")]
            ELSE [train EXCEPT !.pc = "features", !.tracks = tracks,
                               !.training_df = TrainingRows(tracks)]

\* main, lines 134-142: model.prepare_features
PrepareFeatures ==
    /\ train.pc = "features"
    /\ train' =
         IF FeatureRows(train.training_df) = {}
         THEN [train EXCEPT !.pc = "exited", !.outcome = "no_features",
                            !.exit_status = ReturnStatus("no_features")]
         ELSE [train EXCEPT !.pc = "train",
                            !.features_df = FeatureRows(train.training_df)]

\* main, lines 146-172: model.train returns the metrics, or {} on any error
TrainModel ==
    /\ train.pc = "train"
    /\ \E metrics \in {"metrics", "empty"} :
         LET outcome == IF metrics = "empty" THEN "training_failed" ELSE "trained"
         IN  train' = [train EXCEPT !.pc = "exited", !.outcome = outcome,
                                    !.exit_status = ReturnStatus(outcome)]

TrainingStart == train = IdleTraining

(***************************************************************************)
(* Environment Recovery Checker: src/scripts/recovery_check.py             *)
(***************************************************************************)
\* numbers of ZIP files, extracted track folders and cleaned CSV files found
InventoryCounts == {0, 3, 7}
ExpectedTracks == 7

\* what check_data_files, check_models and check_api_status report
Inventories ==
    [zip_files : InventoryCounts, extracted_dirs : InventoryCounts,
     cleaned_files : InventoryCounts, tire_model : BOOLEAN,
     api_ready : BOOLEAN]

DownloadData == "python scripts/download_data.py"
ProcessRealData == "python scripts/process_real_data.py"
TrainModelCommand == "python scripts/train_model.py"
RaceDemo == "python demo/race_demo.py"
StartApi == "uvicorn src.api.main:app --reload --port 8000"

\* generate_recovery_plan: the commands of the steps, in order
generate_recovery_plan(i) ==
    (IF i.zip_files = 0 THEN <<DownloadData>> ELSE <<>>) \o
    (IF i.extracted_dirs < ExpectedTracks THEN <<ProcessRealData>> ELSE <<>>) \o
    (IF ~i.tire_model THEN <<TrainModelCommand>> ELSE <<>>) \o
    <<RaceDemo>> \o
    (IF i.api_ready THEN <<StartApi>> ELSE <<>>)

\* main: the command printed under QUICK START RECOMMENDATION
quick_start(i) ==
    IF i.zip_files = 0 THEN DownloadData
    ELSE IF i.cleaned_files = 0 THEN ProcessRealData
    ELSE IF ~i.tire_model THEN TrainModelCommand
    ELSE RaceDemo

\* main: one run of the checker over the inventory it finds
RecoveryCheck ==
    recov' = [recov EXCEPT !.examined = recov.inventory,
                           !.recovery_steps = generate_recovery_plan(recov.inventory),
                           !.quick_start = quick_start(recov.inventory),
                           !.runs = 1]

\* files appear or disappear between runs
ChangeInventory ==
    \E i \in Inventories :
        /\ i # recov.inventory
        /\ recov' = [recov EXCEPT !.inventory = i]

RecoveryStart ==
    recov = [inventory |-> [zip_files |-> 0, extracted_dirs |-> 0,
                            cleaned_files |-> 0, tire_model |-> FALSE,
                            api_ready |-> FALSE],
             examined |-> [zip_files |-> 0, extracted_dirs |-> 0,
                           cleaned_files |-> 0, tire_model |-> FALSE,
                           api_ready |-> FALSE],
             recovery_steps |-> <<>>, quick_start |-> "", runs |-> 0]

(***************************************************************************)
(* The performance rating of the comparison report:                        *)
(* src/scripts/new_data_processor.py, generate_comparison_report           *)
(***************************************************************************)
\* field_avg_speed of the baseline (0 in a baseline without sessions) and the
\* mean Speed of the new session
BaselineAvgSpeeds == {0, 50, 100}
SessionAvgSpeeds == (45..55) \cup (95..105)
RatingPercent == 2

\* speed_improvement > pct, where
\* speed_improvement = ((new_avg_speed - baseline_avg_speed) / baseline_avg_speed) * 100
SpeedImprovementOver(new_avg_speed, baseline_avg_speed, pct) ==
    (new_avg_speed - baseline_avg_speed) * 100 > pct * baseline_avg_speed

\* 'Above Baseline' if speed_improvement > 2 else
\* 'At Baseline' if speed_improvement > -2 else 'Below Baseline'
performance_rating(new_avg_speed, baseline_avg_speed) ==
    IF SpeedImprovementOver(new_avg_speed, baseline_avg_speed, RatingPercent)
      THEN "Above Baseline"
    ELSE IF SpeedImprovementOver(new_avg_speed, baseline_avg_speed, -RatingPercent)
      THEN "At Baseline"
    ELSE "Below Baseline"

\* generate_comparison_report: performance_vs_baseline is filled in only
\* when baseline_avg_speed > 0
RateSession ==
    /\ rating.performance_rating = "unrated"
    /\ rating' = [rating EXCEPT !.performance_rating =
                     IF rating.baseline_avg_speed > 0
                       THEN performance_rating(rating.new_avg_speed,
                                               rating.baseline_avg_speed)
                       ELSE "none"]

\* the next session and baseline to compare
NextSession ==
    /\ rating.performance_rating # "unrated"
    /\ \E b \in BaselineAvgSpeeds, n \in SessionAvgSpeeds :
          rating' = [baseline_avg_speed |-> b, new_avg_speed |-> n,
                     performance_rating |-> "unrated"]

\* no report has been generated yet
RatingStart ==
    rating = [baseline_avg_speed |-> 0, new_avg_speed |-> 0,
              performance_rating |-> "none"]

(***************************************************************************)
(* Standalone Prediction Function, the pit-window route:                   *)
(* src/src/api/lambda_handler.py, handle_pit_strategy                      *)
(***************************************************************************)
\* bound: laps of a race in a pit-window request
MaxWindowLaps == 8
\* a key the request body does not carry
AbsentKey == -1
\* tire_age values of the body
BodyTireAges == {AbsentKey, 10, 15, 16, 20, 21}

\* request bodies of a race in progress
PitWindowBodies ==
    {b \in [current_lap : 1..MaxWindowLaps, max_laps : 1..MaxWindowLaps,
            tire_age : BodyTireAges] : b.current_lap <= b.max_laps}

\* min(3, max_laps - current_lap - 2)
laps_to_pit(current_lap, max_laps) ==
    IF max_laps - current_lap - 2 < 3 THEN max_laps - current_lap - 2 ELSE 3

\* handle_pit_strategy: the action, and the local laps_to_pit when the
\* windowed branch is taken
handle_pit_strategy(body) ==
    LET tire_age == IF body.tire_age = AbsentKey THEN body.current_lap
                    ELSE body.tire_age
        n == laps_to_pit(body.current_lap, body.max_laps)
    IN  IF tire_age > 20
          THEN [action |-> "PIT_NOW", windowed |-> FALSE, laps_to_pit |-> 0]
        ELSE IF tire_age > 15
          THEN [action |-> "PIT_IN_" \o ToString(n) \o "_LAPS",
                windowed |-> TRUE, laps_to_pit |-> n]
        ELSE [action |-> "STAY_OUT", windowed |-> FALSE, laps_to_pit |-> 0]

NoPitWindowAnswer == [action |-> "none", windowed |-> FALSE, laps_to_pit |-> 0]

\* a POST /strategy/pit-window arrives at a process whose model is loaded
PitWindowRequest ==
    /\ pw.pc = "idle"
    /\ \E b \in PitWindowBodies :
          pw' = [pc |-> "handling", body |-> b, result |-> NoPitWindowAnswer]

\* lambda_handler: result = handle_pit_strategy(body), answered with 200
HandlePitStrategy ==
    /\ pw.pc = "handling"
    /\ pw' = [pw EXCEPT !.pc = "idle", !.result = handle_pit_strategy(pw.body)]

PitWindowStart ==
    pw = [pc |-> "idle",
          body |-> [current_lap |-> 1, max_laps |-> 1, tire_age |-> AbsentKey],
          result |-> NoPitWindowAnswer]

(***************************************************************************)
(* Specifications                                                          *)
(***************************************************************************)
InitCleaner ==
    CleanerStart /\ PitStart /\ BaselineStart /\ ValidateStart /\ VersionsStart /\ CleanupStart /\ StreamStart /\ ApiStart /\ FunctionStart /\ DashboardStart /\ TriggerStart /\ TrainingStart /\ RecoveryStart /\ RatingStart /\ PitWindowStart

NextCleaner ==
    \/ LoadTelemetry /\ UNCHANGED <<pitVars, baselineVars, validateVars, versionVars, cleanup, ws, api, fn, dash, tp, train, recov, rating, pw>>
    \/ FixLapErrors /\ UNCHANGED <<pitVars, baselineVars, validateVars, versionVars, cleanup, ws, api, fn, dash, tp, train, recov, rating, pw>>
    \/ AlignAndSave /\ UNCHANGED <<pitVars, baselineVars, validateVars, versionVars, cleanup, ws, api, fn, dash, tp, train, recov, rating, pw>>

SpecCleaner == InitCleaner /\ [][NextCleaner]_vars

InitPit ==
    PitStart /\ CleanerStart /\ BaselineStart /\ ValidateStart /\ VersionsStart /\ CleanupStart /\ StreamStart /\ ApiStart /\ FunctionStart /\ DashboardStart /\ TriggerStart /\ TrainingStart /\ RecoveryStart /\ RatingStart /\ PitWindowStart

NextPit ==
    \/ PitRequest /\ UNCHANGED <<cleanerVars, baselineVars, validateVars, versionVars, cleanup, ws, api, fn, dash, tp, train, recov, rating, pw>>
    \/ GetRecommendation /\ UNCHANGED <<cleanerVars, baselineVars, validateVars, versionVars, cleanup, ws, api, fn, dash, tp, train, recov, rating, pw>>
    \/ PitReturn /\ UNCHANGED <<cleanerVars, baselineVars, validateVars, versionVars, cleanup, ws, api, fn, dash, tp, train, recov, rating, pw>>

SpecPit == InitPit /\ [][NextPit]_vars

InitValidate ==
    ValidateStart /\ CleanerStart /\ PitStart /\ BaselineStart /\ VersionsStart /\ CleanupStart /\ StreamStart /\ ApiStart /\ FunctionStart /\ DashboardStart /\ TriggerStart /\ TrainingStart /\ RecoveryStart /\ RatingStart /\ PitWindowStart

NextValidate ==
    \/ ReadRow /\ UNCHANGED <<cleanerVars, pitVars, baselineVars, versionVars, cleanup, ws, api, fn, dash, tp, train, recov, rating, pw>>
    \/ ValidateDataFormat /\ UNCHANGED <<cleanerVars, pitVars, baselineVars, versionVars, cleanup, ws, api, fn, dash, tp, train, recov, rating, pw>>

SpecValidate == InitValidate /\ [][NextValidate]_vars

InitBaseline ==
    BaselineStart /\ CleanerStart /\ PitStart /\ ValidateStart /\ VersionsStart /\ CleanupStart /\ StreamStart /\ ApiStart /\ FunctionStart /\ DashboardStart /\ TriggerStart /\ TrainingStart /\ RecoveryStart /\ RatingStart /\ PitWindowStart

\* one process_new_data_file call at a time
NextBaseline ==
    \/ StartRun(1) /\ UNCHANGED <<cleanerVars, pitVars, validateVars, versionVars, cleanup, ws, api, fn, dash, tp, train, recov, rating, pw>>
    \/ CleanRun(1) /\ UNCHANGED <<cleanerVars, pitVars, validateVars, versionVars, cleanup, ws, api, fn, dash, tp, train, recov, rating, pw>>
    \/ LoadBaseline(1) /\ UNCHANGED <<cleanerVars, pitVars, validateVars, versionVars, cleanup, ws, api, fn, dash, tp, train, recov, rating, pw>>
    \/ GenerateReport(1) /\ UNCHANGED <<cleanerVars, pitVars, validateVars, versionVars, cleanup, ws, api, fn, dash, tp, train, recov, rating, pw>>
    \/ UpdateBaseline(1) /\ UNCHANGED <<cleanerVars, pitVars, validateVars, versionVars, cleanup, ws, api, fn, dash, tp, train, recov, rating, pw>>
    \/ SaveBaseline(1) /\ UNCHANGED <<cleanerVars, pitVars, validateVars, versionVars, cleanup, ws, api, fn, dash, tp, train, recov, rating, pw>>
    \/ UploadSession(1) /\ UNCHANGED <<cleanerVars, pitVars, validateVars, versionVars, cleanup, ws, api, fn, dash, tp, train, recov, rating, pw>>
    \/ FinishRun(1) /\ UNCHANGED <<cleanerVars, pitVars, validateVars, versionVars, cleanup, ws, api, fn, dash, tp, train, recov, rating, pw>>

SpecBaseline == InitBaseline /\ [][NextBaseline]_vars

InitBaselineConcurrent ==
    BaselineStart /\ CleanerStart /\ PitStart /\ ValidateStart /\ VersionsStart /\ CleanupStart /\ StreamStart /\ ApiStart /\ FunctionStart /\ DashboardStart /\ TriggerStart /\ TrainingStart /\ RecoveryStart /\ RatingStart /\ PitWindowStart

\* two process_new_data_file calls for the same track, each started once,
\* run one step at a time in any order
NextBaselineConcurrent ==
    \/ (\E r \in RunIds : StartConcurrentRun(r)) /\ UNCHANGED <<cleanerVars, pitVars, validateVars, versionVars, cleanup, ws, api, fn, dash, tp, train, recov, rating, pw>>
    \/ (\E r \in RunIds : CleanRun(r)) /\ UNCHANGED <<cleanerVars, pitVars, validateVars, versionVars, cleanup, ws, api, fn, dash, tp, train, recov, rating, pw>>
    \/ (\E r \in RunIds : LoadBaseline(r)) /\ UNCHANGED <<cleanerVars, pitVars, validateVars, versionVars, cleanup, ws, api, fn, dash, tp, train, recov, rating, pw>>
    \/ (\E r \in RunIds : GenerateReport(r)) /\ UNCHANGED <<cleanerVars, pitVars, validateVars, versionVars, cleanup, ws, api, fn, dash, tp, train, recov, rating, pw>>
    \/ (\E r \in RunIds : UpdateBaseline(r)) /\ UNCHANGED <<cleanerVars, pitVars, validateVars, versionVars, cleanup, ws, api, fn, dash, tp, train, recov, rating, pw>>
    \/ (\E r \in RunIds : SaveBaseline(r)) /\ UNCHANGED <<cleanerVars, pitVars, validateVars, versionVars, cleanup, ws, api, fn, dash, tp, train, recov, rating, pw>>
    \/ (\E r \in RunIds : UploadSession(r)) /\ UNCHANGED <<cleanerVars, pitVars, validateVars, versionVars, cleanup, ws, api, fn, dash, tp, train, recov, rating, pw>>

SpecBaselineConcurrent == InitBaselineConcurrent /\ [][NextBaselineConcurrent]_vars

InitVersions ==
    VersionsStart /\ CleanerStart /\ PitStart /\ BaselineStart /\ ValidateStart /\ CleanupStart /\ StreamStart /\ ApiStart /\ FunctionStart /\ DashboardStart /\ TriggerStart /\ TrainingStart /\ RecoveryStart /\ RatingStart /\ PitWindowStart

\* one version manager command at a time
NextVersions ==
    \/ StartCreate(1) /\ UNCHANGED <<cleanerVars, pitVars, baselineVars, validateVars, cleanup, ws, api, fn, dash, tp, train, recov, rating, pw>>
    \/ StartRollback(1) /\ UNCHANGED <<cleanerVars, pitVars, baselineVars, validateVars, cleanup, ws, api, fn, dash, tp, train, recov, rating, pw>>
    \/ FindVersion(1) /\ UNCHANGED <<cleanerVars, pitVars, baselineVars, validateVars, cleanup, ws, api, fn, dash, tp, train, recov, rating, pw>>
    \/ CopyDashboard(1) /\ UNCHANGED <<cleanerVars, pitVars, baselineVars, validateVars, cleanup, ws, api, fn, dash, tp, train, recov, rating, pw>>
    \/ ReadVersionLog(1) /\ UNCHANGED <<cleanerVars, pitVars, baselineVars, validateVars, cleanup, ws, api, fn, dash, tp, train, recov, rating, pw>>
    \/ WriteVersionLog(1) /\ UNCHANGED <<cleanerVars, pitVars, baselineVars, validateVars, cleanup, ws, api, fn, dash, tp, train, recov, rating, pw>>
    \/ RestoreDashboard(1) /\ UNCHANGED <<cleanerVars, pitVars, baselineVars, validateVars, cleanup, ws, api, fn, dash, tp, train, recov, rating, pw>>
    \/ FinishCommand(1) /\ UNCHANGED <<cleanerVars, pitVars, baselineVars, validateVars, cleanup, ws, api, fn, dash, tp, train, recov, rating, pw>>
    \/ EditDashboard /\ UNCHANGED <<cleanerVars, pitVars, baselineVars, validateVars, cleanup, ws, api, fn, dash, tp, train, recov, rating, pw>>
    \/ RemoveDashboard /\ UNCHANGED <<cleanerVars, pitVars, baselineVars, validateVars, cleanup, ws, api, fn, dash, tp, train, recov, rating, pw>>
    \/ RemoveSnapshot /\ UNCHANGED <<cleanerVars, pitVars, baselineVars, validateVars, cleanup, ws, api, fn, dash, tp, train, recov, rating, pw>>
    \/ Tick /\ UNCHANGED <<cleanerVars, pitVars, baselineVars, validateVars, cleanup, ws, api, fn, dash, tp, train, recov, rating, pw>>

SpecVersions == InitVersions /\ [][NextVersions]_vars

InitVersionsConcurrent ==
    VersionsStart /\ CleanerStart /\ PitStart /\ BaselineStart /\ ValidateStart /\ CleanupStart /\ StreamStart /\ ApiStart /\ FunctionStart /\ DashboardStart /\ TriggerStart /\ TrainingStart /\ RecoveryStart /\ RatingStart /\ PitWindowStart

\* two create commands, each started once, run one step at a time in any order
NextVersionsConcurrent ==
    \/ (\E p \in VmIds : StartCreate(p)) /\ UNCHANGED <<cleanerVars, pitVars, baselineVars, validateVars, cleanup, ws, api, fn, dash, tp, train, recov, rating, pw>>
    \/ (\E p \in VmIds : CopyDashboard(p)) /\ UNCHANGED <<cleanerVars, pitVars, baselineVars, validateVars, cleanup, ws, api, fn, dash, tp, train, recov, rating, pw>>
    \/ (\E p \in VmIds : ReadVersionLog(p)) /\ UNCHANGED <<cleanerVars, pitVars, baselineVars, validateVars, cleanup, ws, api, fn, dash, tp, train, recov, rating, pw>>
    \/ (\E p \in VmIds : WriteVersionLog(p)) /\ UNCHANGED <<cleanerVars, pitVars, baselineVars, validateVars, cleanup, ws, api, fn, dash, tp, train, recov, rating, pw>>
    \/ TimePasses /\ UNCHANGED <<cleanerVars, pitVars, baselineVars, validateVars, cleanup, ws, api, fn, dash, tp, train, recov, rating, pw>>
    \/ EditDashboard /\ UNCHANGED <<cleanerVars, pitVars, baselineVars, validateVars, cleanup, ws, api, fn, dash, tp, train, recov, rating, pw>>

SpecVersionsConcurrent == InitVersionsConcurrent /\ [][NextVersionsConcurrent]_vars

InitCleanup ==
    CleanupStart /\ CleanerStart /\ PitStart /\ BaselineStart /\ ValidateStart /\ VersionsStart /\ StreamStart /\ ApiStart /\ FunctionStart /\ DashboardStart /\ TriggerStart /\ TrainingStart /\ RecoveryStart /\ RatingStart /\ PitWindowStart

NextCleanup ==
    \/ MainPrompts /\ UNCHANGED <<cleanerVars, pitVars, baselineVars, validateVars, versionVars, ws, api, fn, dash, tp, train, recov, rating, pw>>
    \/ ConfirmDelete /\ UNCHANGED <<cleanerVars, pitVars, baselineVars, validateVars, versionVars, ws, api, fn, dash, tp, train, recov, rating, pw>>
    \/ ConfirmStage /\ UNCHANGED <<cleanerVars, pitVars, baselineVars, validateVars, versionVars, ws, api, fn, dash, tp, train, recov, rating, pw>>
    \/ BackupImportantData /\ UNCHANGED <<cleanerVars, pitVars, baselineVars, validateVars, versionVars, ws, api, fn, dash, tp, train, recov, rating, pw>>
    \/ EmptyS3Bucket /\ UNCHANGED <<cleanerVars, pitVars, baselineVars, validateVars, versionVars, ws, api, fn, dash, tp, train, recov, rating, pw>>
    \/ RemoveServerlessStack /\ UNCHANGED <<cleanerVars, pitVars, baselineVars, validateVars, versionVars, ws, api, fn, dash, tp, train, recov, rating, pw>>
    \/ CleanupRemainingResources /\ UNCHANGED <<cleanerVars, pitVars, baselineVars, validateVars, versionVars, ws, api, fn, dash, tp, train, recov, rating, pw>>
    \/ GenerateCleanupReport /\ UNCHANGED <<cleanerVars, pitVars, baselineVars, validateVars, versionVars, ws, api, fn, dash, tp, train, recov, rating, pw>>
    \/ MainReturn /\ UNCHANGED <<cleanerVars, pitVars, baselineVars, validateVars, versionVars, ws, api, fn, dash, tp, train, recov, rating, pw>>

SpecCleanup == InitCleanup /\ [][NextCleanup]_vars

InitStream ==
    StreamStart /\ CleanerStart /\ PitStart /\ BaselineStart /\ ValidateStart /\ VersionsStart /\ CleanupStart /\ ApiStart /\ FunctionStart /\ DashboardStart /\ TriggerStart /\ TrainingStart /\ RecoveryStart /\ RatingStart /\ PitWindowStart

\* what the handler coroutine does once a client has connected
StreamHandler ==
    \/ StreamLoad /\ UNCHANGED <<cleanerVars, pitVars, baselineVars, validateVars, versionVars, cleanup, api, fn, dash, tp, train, recov, rating, pw>>
    \/ StreamLap /\ UNCHANGED <<cleanerVars, pitVars, baselineVars, validateVars, versionVars, cleanup, api, fn, dash, tp, train, recov, rating, pw>>
    \/ StreamExhausted /\ UNCHANGED <<cleanerVars, pitVars, baselineVars, validateVars, versionVars, cleanup, api, fn, dash, tp, train, recov, rating, pw>>
    \/ StreamFinally /\ UNCHANGED <<cleanerVars, pitVars, baselineVars, validateVars, versionVars, cleanup, api, fn, dash, tp, train, recov, rating, pw>>

NextStream ==
    \/ StreamConnect /\ UNCHANGED <<cleanerVars, pitVars, baselineVars, validateVars, versionVars, cleanup, api, fn, dash, tp, train, recov, rating, pw>>
    \/ ClientDisconnect /\ UNCHANGED <<cleanerVars, pitVars, baselineVars, validateVars, versionVars, cleanup, api, fn, dash, tp, train, recov, rating, pw>>
    \/ StreamHandler

SpecStream == InitStream /\ [][NextStream]_vars

\* the event loop resumes the handler after every await
SpecStreamFair == SpecStream /\ WF_vars(StreamHandler)

InitApi ==
    ApiStart /\ CleanerStart /\ PitStart /\ BaselineStart /\ ValidateStart /\ VersionsStart /\ CleanupStart /\ StreamStart /\ FunctionStart /\ DashboardStart /\ TriggerStart /\ TrainingStart /\ RecoveryStart /\ RatingStart /\ PitWindowStart

NextApi ==
    \/ StartupEvent /\ UNCHANGED <<cleanerVars, pitVars, baselineVars, validateVars, versionVars, cleanup, ws, fn, dash, tp, train, recov, rating, pw>>
    \/ PredictLapTimeRoute /\ UNCHANGED <<cleanerVars, pitVars, baselineVars, validateVars, versionVars, cleanup, ws, fn, dash, tp, train, recov, rating, pw>>
    \/ CalculatePitWindowRoute /\ UNCHANGED <<cleanerVars, pitVars, baselineVars, validateVars, versionVars, cleanup, ws, fn, dash, tp, train, recov, rating, pw>>

SpecApi == InitApi /\ [][NextApi]_vars

InitFunction ==
    FunctionStart /\ CleanerStart /\ PitStart /\ BaselineStart /\ ValidateStart /\ VersionsStart /\ CleanupStart /\ StreamStart /\ ApiStart /\ DashboardStart /\ TriggerStart /\ TrainingStart /\ RecoveryStart /\ RatingStart /\ PitWindowStart

NextFunction ==
    \/ InvokeFunction /\ UNCHANGED <<cleanerVars, pitVars, baselineVars, validateVars, versionVars, cleanup, ws, api, dash, tp, train, recov, rating, pw>>
    \/ PutArtifacts /\ UNCHANGED <<cleanerVars, pitVars, baselineVars, validateVars, versionVars, cleanup, ws, api, dash, tp, train, recov, rating, pw>>

SpecFunction == InitFunction /\ [][NextFunction]_vars

InitDashboard ==
    DashboardStart /\ CleanerStart /\ PitStart /\ BaselineStart /\ ValidateStart /\ VersionsStart /\ CleanupStart /\ StreamStart /\ ApiStart /\ FunctionStart /\ TriggerStart /\ TrainingStart /\ RecoveryStart /\ RatingStart /\ PitWindowStart

NextDashboard ==
    \/ FixedRequest /\ UNCHANGED <<cleanerVars, pitVars, baselineVars, validateVars, versionVars, cleanup, ws, api, fn, tp, train, recov, rating, pw>>
    \/ EnhancedRequest /\ UNCHANGED <<cleanerVars, pitVars, baselineVars, validateVars, versionVars, cleanup, ws, api, fn, tp, train, recov, rating, pw>>
    \/ PutObject /\ UNCHANGED <<cleanerVars, pitVars, baselineVars, validateVars, versionVars, cleanup, ws, api, fn, tp, train, recov, rating, pw>>

SpecDashboard == InitDashboard /\ [][NextDashboard]_vars

InitTrigger ==
    TriggerStart /\ CleanerStart /\ PitStart /\ BaselineStart /\ ValidateStart /\ VersionsStart /\ CleanupStart /\ StreamStart /\ ApiStart /\ FunctionStart /\ DashboardStart /\ TrainingStart /\ RecoveryStart /\ RatingStart /\ PitWindowStart

NextTrigger ==
    \/ UploadRaw /\ UNCHANGED <<cleanerVars, pitVars, baselineVars, validateVars, versionVars, cleanup, ws, api, fn, dash, train, recov, rating, pw>>
    \/ HandleStorageEvent /\ UNCHANGED <<cleanerVars, pitVars, baselineVars, validateVars, versionVars, cleanup, ws, api, fn, dash, train, recov, rating, pw>>

SpecTrigger == InitTrigger /\ [][NextTrigger]_vars

InitTraining ==
    TrainingStart /\ CleanerStart /\ PitStart /\ BaselineStart /\ ValidateStart /\ VersionsStart /\ CleanupStart /\ StreamStart /\ ApiStart /\ FunctionStart /\ DashboardStart /\ TriggerStart /\ RecoveryStart /\ RatingStart /\ PitWindowStart

NextTraining ==
    \/ PrepareTrainingData /\ UNCHANGED <<cleanerVars, pitVars, baselineVars, validateVars, versionVars, cleanup, ws, api, fn, dash, tp, recov, rating, pw>>
    \/ PrepareFeatures /\ UNCHANGED <<cleanerVars, pitVars, baselineVars, validateVars, versionVars, cleanup, ws, api, fn, dash, tp, recov, rating, pw>>
    \/ TrainModel /\ UNCHANGED <<cleanerVars, pitVars, baselineVars, validateVars, versionVars, cleanup, ws, api, fn, dash, tp, recov, rating, pw>>

SpecTraining == InitTraining /\ [][NextTraining]_vars

InitRecovery ==
    RecoveryStart /\ CleanerStart /\ PitStart /\ BaselineStart /\ ValidateStart /\ VersionsStart /\ CleanupStart /\ StreamStart /\ ApiStart /\ FunctionStart /\ DashboardStart /\ TriggerStart /\ TrainingStart /\ RatingStart /\ PitWindowStart

NextRecovery ==
    \/ RecoveryCheck /\ UNCHANGED <<cleanerVars, pitVars, baselineVars, validateVars, versionVars, cleanup, ws, api, fn, dash, tp, train, rating, pw>>
    \/ ChangeInventory /\ UNCHANGED <<cleanerVars, pitVars, baselineVars, validateVars, versionVars, cleanup, ws, api, fn, dash, tp, train, rating, pw>>

SpecRecovery == InitRecovery /\ [][NextRecovery]_vars

InitRating ==
    RatingStart /\ CleanerStart /\ PitStart /\ BaselineStart /\ ValidateStart /\ VersionsStart /\ CleanupStart /\ StreamStart /\ ApiStart /\ FunctionStart /\ DashboardStart /\ TriggerStart /\ TrainingStart /\ RecoveryStart /\ PitWindowStart

NextRating ==
    \/ RateSession /\ UNCHANGED <<cleanerVars, pitVars, baselineVars, validateVars, versionVars, cleanup, ws, api, fn, dash, tp, train, recov, pw>>
    \/ NextSession /\ UNCHANGED <<cleanerVars, pitVars, baselineVars, validateVars, versionVars, cleanup, ws, api, fn, dash, tp, train, recov, pw>>

SpecRating == InitRating /\ [][NextRating]_vars

InitPitWindow ==
    PitWindowStart /\ CleanerStart /\ PitStart /\ BaselineStart /\ ValidateStart /\ VersionsStart /\ CleanupStart /\ StreamStart /\ ApiStart /\ FunctionStart /\ DashboardStart /\ TriggerStart /\ TrainingStart /\ RecoveryStart /\ RatingStart

NextPitWindow ==
    \/ PitWindowRequest /\ UNCHANGED <<cleanerVars, pitVars, baselineVars, validateVars, versionVars, cleanup, ws, api, fn, dash, tp, train, recov, rating>>
    \/ HandlePitStrategy /\ UNCHANGED <<cleanerVars, pitVars, baselineVars, validateVars, versionVars, cleanup, ws, api, fn, dash, tp, train, recov, rating>>

SpecPitWindow == InitPitWindow /\ [][NextPitWindow]_vars

(***************************************************************************)
(* Claims                                                                  *)
(***************************************************************************)
\* C1: no row of the cleaned output has a lap value equal to the sentinel
\* 32768, whatever the row's vehicle_id
C1_NoSentinelAfterCleaning ==
    stage = "cleaned" => \A i \in 1..Len(df) : df[i].lap # lap_error_value

\* the valid (non-sentinel, positive) lap values of the input never go
\* backwards in a vehicle's timestamp order
ValidLapsOrdered(t) ==
    \A i, j \in 1..Len(t) :
        ( /\ t[i].vehicle_id = t[j].vehicle_id
          /\ t[i].timestamp # NaT
          /\ t[i].timestamp < t[j].timestamp
          /\ t[i].lap # lap_error_value /\ t[i].lap > 0
          /\ t[j].lap # lap_error_value /\ t[j].lap > 0 )
        => t[i].lap <= t[j].lap

\* C2: after the lap-reconstruction step, no sample of a vehicle has a lap
\* number smaller than that of an earlier sample of the same vehicle.  The
\* statement is taken on the inputs where the step does reconstruct (a
\* sentinel is present) and whose own valid lap values are in order, so a
\* violation is a decrease that the reconstruction itself produces.
C2_LapsNonDecreasing ==
    (stage = "lapfixed" /\ HasLapError(raw) /\ ValidLapsOrdered(raw)) =>
        \A i, j \in 1..Len(df) :
            ( /\ df[i].vehicle_id = df[j].vehicle_id
              /\ df[i].vehicle_id # NaNVid
              /\ df[i].timestamp # NaT
              /\ df[i].timestamp < df[j].timestamp )
            => df[i].lap <= df[j].lap

\* C3: the scenario ranked first (the best scenario of get_recommendation)
\* has the lowest total_time among all simulated candidate pit laps.  The
\* statement is taken on requests with a trained model and a positive
\* session_best, so a violation does not rest on a degenerate request.
C3_BestHasLowestTotalTime ==
    ( /\ pitPhase = "answered"
      /\ pitScen # <<>>
      /\ pitReq.model.is_trained
      /\ pitReq.session_best > 0 ) =>
        \A k \in 1..Len(pitScen) : pitScen[1].total_time <= pitScen[k].total_time

\* C4: when at least one scenario was simulated, the action is PIT_NOW
\* exactly when the best scenario pits on the current lap, PIT_IN_<n>_LAPS
\* (n = laps_to_pit) exactly when it pits 1 to 3 laps later, and STAY_OUT
\* exactly when it pits more than 3 laps later
C4_ActionFollowsBestPitLap ==
    (pitPhase = "answered" /\ pitScen # <<>>) =>
        LET d == pitScen[1].pit_lap - pitReq.current_lap
        IN  /\ (pitRec.action = "PIT_NOW") <=> (d = 0)
            /\ (pitRec.action = "PIT_IN_1_LAPS") <=> (d = 1)
            /\ (pitRec.action = "PIT_IN_2_LAPS") <=> (d = 2)
            /\ (pitRec.action = "PIT_IN_3_LAPS") <=> (d = 3)
            /\ (pitRec.action = "STAY_OUT") <=> (d > 3)
            /\ d \in 1..3 => pitRec.laps_remaining = d

\* a best scenario that pits one lap after the current lap was answered
C4_Witness ==
    /\ pitPhase = "answered"
    /\ pitScen # <<>>
    /\ pitScen[1].pit_lap = pitReq.current_lap + 1
    /\ pitRec.action = "PIT_IN_1_LAPS"

\* C5: get_recommendation never raises; when a step of building the
\* recommendation fails it returns the default recommendation: STAY_OUT,
\* confidence 0.3, tire_cliff_lap 20
C5_ErrorsGiveDefault ==
    pitPhase = "answered" =>
        /\ pitRec.action # "raised"
        /\ SimulationError(pitReq) # "none" =>
              /\ pitRec.action = "STAY_OUT"
              /\ pitRec.confidence = 3
              /\ pitRec.tire_cliff_lap = 20

\* a request whose simulation divided by zero was answered with the default
C5_Witness ==
    /\ pitPhase = "answered"
    /\ SimulationError(pitReq) = "ZeroDivisionError"
    /\ pitRec = default_recommendation

RECURSIVE SumAvgs(_, _)
\* sum of the first n session averages of the history
SumAvgs(h, n) == IF n = 0 THEN RatInt(0) ELSE RatAdd(SumAvgs(h, n - 1), h[n].avg)

\* C6: starting from an empty baseline, after n sessions integrated one after
\* another field_avg_speed is the arithmetic mean of the n sessions' average
\* speeds, whatever their row counts
C6_FieldAvgIsMeanOfSessions ==
    baselineFile # NoFile =>
        /\ baselineFile.total_sessions = Len(history)
        /\ baselineFile.field_avg_speed = RatDivInt(SumAvgs(history, Len(history)), Len(history))

\* a one-row session averaging 100 then a two-row session averaging 120
\* were integrated and the baseline average is 110
C6_Witness ==
    /\ history = <<[avg |-> RatInt(100), rows |-> 1], [avg |-> RatInt(120), rows |-> 2]>>
    /\ baselineFile # NoFile
    /\ baselineFile.field_avg_speed = RatInt(110)

\* C7: the comparison report of process_new_data_file reflects the baseline
\* loaded at the start of the call: is_new_driver is true exactly for the
\* drivers without a record in it, and the baseline average speed reported
\* (to one decimal, when the baseline has one) is its pre-update value
C7_ReportReflectsPriorBaseline ==
    run[1].report # NoReport =>
        /\ \A d \in SessionDrivers(run[1].rows) :
              run[1].report.is_new_driver[d] <=> d \notin DOMAIN run[1].loaded.driver_records
        /\ run[1].report.has_performance <=> run[1].loaded.total_sessions > 0
        /\ run[1].report.has_performance =>
              run[1].report.baseline_avg_speed = RoundTenths(run[1].loaded.field_avg_speed)

\* a successful call whose session moved the baseline average and had a
\* returning driver: the report shows the old average and is_new_driver false
C7_Witness ==
    /\ run[1].pc = "returned"
    /\ run[1].result = "success"
    /\ run[1].report.has_performance
    /\ run[1].report.baseline_avg_speed # RoundTenths(baselineFile.field_avg_speed)
    /\ \E d \in SessionDrivers(run[1].rows) : ~run[1].report.is_new_driver[d]
    /\ \E d \in SessionDrivers(run[1].rows) : run[1].report.is_new_driver[d]

\* C8: validate_data_format rejects for missing critical data exactly when
\* the rows lacking at least one of Speed, lap, timestamp are more than 10%
\* of the rows
C8_RejectsOverTenPercentRows ==
    validation # NoValidation =>
        (validation.too_much_missing <=> 10 * RowsLacking(vdf) > TotalRecords(vdf))

\* the last record of the log is a backup_before_rollback record added by
\* the rollback in progress, and its snapshot file holds the content the live
\* dashboard had when the rollback began
BackupRecorded(p) ==
    LET n == Len(versionLog.versions)
    IN  /\ versionLog.exists
        /\ n = Len(vm[p].pre.versionLog.versions) + 1
        /\ versionLog.versions[n].version_name = "backup_before_rollback"
        /\ versionLog.versions[n].filename \in DOMAIN snapshots
        /\ snapshots[versionLog.versions[n].filename] = vm[p].pre.live

\* C9: a successful rollback first records a backup_before_rollback snapshot
\* (file and log record) holding the live dashboard's content from before the
\* rollback, only then overwrites the live dashboard, and when it returns the
\* live dashboard has the content of the named snapshot.  The statement is
\* taken on rollbacks that begin with a live dashboard file present.
C9_RollbackBacksUpThenRestores ==
    (vm[1].op = "rollback" /\ vm[1].pre.live # Absent) =>
        /\ vm[1].pc = "restore" =>
              /\ BackupRecorded(1)
              /\ live = vm[1].pre.live
        /\ (vm[1].pc = "returned" /\ vm[1].result = "True") =>
              /\ BackupRecorded(1)
              /\ live = vm[1].pre.snapshots[vm[1].target.filename]

\* the rollback was asked for a name that no record of the log carries, or
\* whose (first) record has no snapshot file
NameOrFileNotFound(p) ==
    LET vs == vm[p].pre.versionLog.versions
        hits == {i \in 1..Len(vs) : vs[i].version_name = vm[p].name}
    IN  \/ hits = {}
        \/ \E i \in hits :
              /\ \A j \in hits : i <= j
              /\ vs[i].filename \notin DOMAIN vm[p].pre.snapshots

\* C10: rollback returns False when no log record carries the name or when
\* the record's snapshot file does not exist, and a rollback that returns
\* False has changed neither the live dashboard, nor the log, nor the
\* snapshot files
C10_FailedRollbackChangesNothing ==
    (vm[1].op = "rollback" /\ vm[1].pc = "returned") =>
        /\ NameOrFileNotFound(1) => vm[1].result = "False"
        /\ vm[1].result = "False" =>
              /\ live = vm[1].pre.live
              /\ versionLog = vm[1].pre.versionLog
              /\ snapshots = vm[1].pre.snapshots

\* a rollback returned False for a name that is in the log but whose
\* snapshot file had been removed
C10_Witness ==
    /\ vm[1].op = "rollback"
    /\ vm[1].pc = "returned"
    /\ vm[1].result = "False"
    /\ \E i \in 1..Len(versionLog.versions) :
          /\ versionLog.versions[i].version_name = vm[1].name
          /\ versionLog.versions[i].filename \notin DOMAIN snapshots

\* C11 (as stated): no backup, bucket emptying, stack removal or orphan
\* deletion happens unless the operator typed exactly DELETE at the first
\* prompt and exactly the stage name at the second
C11_TypedExactly ==
    cleanup.performed # {} =>
        /\ cleanup.confirm1 = <<"DELETE">>
        /\ cleanup.confirm2 = cleanup.stage

\* C11 (amended): no backup, bucket emptying, stack removal or orphan deletion
\* happens unless the first answer, with leading and trailing whitespace
\* removed, is DELETE and the second answer, likewise trimmed, is the stage
\* name; after any other answer the run ends with no cleanup step performed
C11_ConfirmedBeforeCleanup ==
    /\ cleanup.performed # {} =>
          /\ strip(cleanup.confirm1) = <<"DELETE">>
          /\ strip(cleanup.confirm2) = cleanup.stage
    /\ (cleanup.pc = "exited" /\ cleanup.success = "False") =>
          cleanup.performed = {}

\* a confirmed run went through all four cleanup steps for stage prod
C11_Witness ==
    /\ cleanup.pc = "exited"
    /\ cleanup.stage = <<"prod">>
    /\ cleanup.performed = CleanupSteps

\* C12: the process ends with a non-zero exit status whenever the cleanup was
\* cancelled at a prompt or a step (backup, bucket emptying, stack removal)
\* failed, and with status zero only when every step succeeded
C12_ExitStatusReflectsOutcome ==
    cleanup.pc = "exited" =>
        /\ (cleanup.success = "False" \/ cleanup.errors # {}) =>
              cleanup.exit_status # 0
        /\ cleanup.exit_status = 0 =>
              /\ cleanup.performed = CleanupSteps
              /\ cleanup.errors = {}

\* C13: every run of the replay channel terminates: the lap cursor strictly
\* increases on every loop iteration that goes on, the handler ends once the
\* cursor has passed the last lap or earlier on a disconnect or an internal
\* error, and no message is sent for a lap beyond the last lap
C13_ReplayTerminates ==
    /\ (ws.pc \in {"load", "loop", "finally"}) ~> (ws.pc = "closed")
    /\ [][(StreamLap /\ ws'.pc = "loop") => ws'.current_lap > ws.current_lap]_vars
    /\ [](\A i \in 1..Len(ws.sent) : ws.sent[i].current_lap <= ws.sent[i].max_lap)
    /\ []((ws.pc = "closed" /\ ws.ended = "exhausted") =>
              ~LapInRange(ws.current_lap, ws.max_lap))

\* a replay of a table with laps ended after the cursor passed the last lap,
\* with a lap that had no rows in between
C13_Witness ==
    /\ ws.pc = "closed"
    /\ ws.ended = "exhausted"
    /\ ws.table.has_lap
    /\ Len(ws.sent) >= 2
    /\ ws.current_lap > Len(ws.sent) + 1

\* C14: without a lap column the rows are sent in consecutive chunks of 100
\* rows, every row in exactly one message, until all rows have been sent
C14_ChunksOfHundred ==
    (ws.pc = "closed" /\ ws.ended = "exhausted" /\ ~ws.table.has_lap) =>
        /\ \A r \in 1..ws.table.n :
              Cardinality({i \in 1..Len(ws.sent) : r \in ws.sent[i].rows}) = 1
        /\ \A i \in 1..Len(ws.sent) :
              ws.sent[i].rows = (HeadRows * (i - 1) + 1)..Min(HeadRows * i, ws.table.n)

\* C15: if the model failed to load at startup, every request to
\* /predict/lap-time and /strategy/pit-window is answered 503, whatever the
\* track id (taken here on bodies that fit the request schema)
C15_UnavailableWhenLoadFailed ==
    (api.started /\ api.load_failed) =>
        \A r \in api.responses : r.valid => r.status = 503

\* C18: within one process, once an invocation has loaded both artifacts the
\* loaded flag stays true, the cached model and scaler are never replaced and
\* no later invocation downloads them again
C18_LoadedOnce ==
    [][fn.model_loaded =>
          /\ fn'.model_loaded
          /\ fn'.tire_model = fn.tire_model
          /\ fn'.scaler = fn.scaler
          /\ fn'.downloads = fn.downloads]_vars

\* the function answered a request from its cache after the model object in
\* the bucket had been replaced
C18_Witness ==
    /\ fn.model_loaded
    /\ fn.invocations >= 2
    /\ fn.last.status = 200
    /\ fn.s3_model \notin {"absent", fn.tire_model}

\* C16: every OPTIONS request is answered with status 200, by the Dashboard
\* API handlers on any path and by the Standalone Prediction Function in
\* every state of its process
C16_OptionsAlways200 ==
    /\ dash.last.method = "OPTIONS" => dash.last.status = 200
    /\ fn.last.method = "OPTIONS" => fn.last.status = 200

\* C17: GET /analytics/{track_id}: an unconfigured track id is answered 404
\* (taken here when no object is stored for it); a configured track whose
\* cleaned object is absent is answered 200 with data_source demo_data
C17_AnalyticsFallback ==
    LET r == dash.last
        id == PathTrackId(r.path)
    IN  (r.method = "GET" /\ Len(r.path) = 2 /\ r.path[1] = "analytics"
            /\ dash.seen = "absent") =>
          /\ id \notin DashboardTracks => r.status = 404
          /\ id \in DashboardTracks =>
                (r.status = 200 /\ r.data_source = "demo_data")

\* C19: for every storage event handled, the processed output is written to
\* a key under the processed-telemetry/ prefix that has the same filename as
\* the key of the triggering object
C19_ProcessedKeyKeepsFilename ==
    \A w \in tp.writes :
        /\ Len(w.processed_key) >= 2
        /\ w.processed_key[1] = ProcessedPrefix
        /\ Filename(w.processed_key) = Filename(w.event_key)

\* outputs were written for a file in a nested raw-telemetry folder and for a
\* file that is itself named raw-telemetry
C19_Witness ==
    /\ \E w \in tp.writes : w.event_key = <<RawPrefix, "raw-telemetry", "BMP.csv">>
    /\ \E w \in tp.writes : Filename(w.event_key) = "raw-telemetry"

\* C20: when the training script finds no valid track data, or feature
\* preparation leaves no valid training rows, the run ends as a failure
\* (non-zero exit status), not like a successful run
C20_NoDataIsFailure ==
    (train.pc = "exited" /\ train.outcome \in {"no_training_data", "no_features"}) =>
        train.exit_status # 0

\* C21: for every inventory the Environment Recovery Checker examines, the
\* command of the quick-start recommendation is the command of the first
\* step of the recovery plan generated for that inventory
C21_QuickStartIsFirstStep ==
    recov.runs > 0 => recov.quick_start = recov.recovery_steps[1]

\* C22: the performance rating is Above Baseline exactly when the speed
\* change versus baseline is greater than +2%, Below Baseline exactly when
\* it is less than -2%, and At Baseline from -2% to +2% inclusive
C22_RatingThresholds ==
    LET n == rating.new_avg_speed
        b == rating.baseline_avg_speed
        r == rating.performance_rating
    IN  r \notin {"unrated", "none"} =>
          /\ r = "Above Baseline" <=> (n - b) * 100 > 2 * b
          /\ r = "Below Baseline" <=> (n - b) * 100 < -2 * b
          /\ r = "At Baseline" <=>
                ((n - b) * 100 >= -2 * b /\ (n - b) * 100 <= 2 * b)

\* both commands are creates that have returned the snapshot path
BothCreated ==
    \A p \in VmIds : vm[p].pc = "returned" /\ vm[p].op = "create" /\ vm[p].result = "path"

\* C23: two concurrent creates on the same version log both write their
\* snapshot file and both report success, and the final log holds only one
\* of the two new records exactly when both commands read the log before
\* either wrote it back (otherwise it holds both)
C23_ConcurrentCreatesLoseRecord ==
    BothCreated =>
        /\ \A p \in VmIds : VersionRecord(p).filename \in DOMAIN snapshots
        /\ \E p \in VmIds :
              versionLog.versions[Len(versionLog.versions)] = VersionRecord(p)
        /\ Len(versionLog.versions) \in {1, 2}
        /\ Len(versionLog.versions) = 1 <=>
              \A p \in VmIds : vm[p].versions = <<>>

\* both creates succeeded and wrote different snapshot files, and the log
\* holds a single record
C23_Witness ==
    /\ BothCreated
    /\ VersionRecord(1).filename # VersionRecord(2).filename
    /\ {VersionRecord(1).filename, VersionRecord(2).filename} \subseteq DOMAIN snapshots
    /\ Len(versionLog.versions) = 1

\* both process_new_data_file calls have returned success
BothSucceeded ==
    \A r \in RunIds : run[r].pc = "returned" /\ run[r].result = "success"

\* the baseline after the sessions of calls a then b were integrated into f
Integrated(f, a, b) ==
    update_baseline_with_new_data(
        update_baseline_with_new_data(f, run[a].rows), run[b].rows)

\* C24: two concurrent process_new_data_file calls for the same track that
\* both return success leave a baseline whose total_sessions grew by 1, not
\* 2, holding one session's contribution only, exactly when both loaded the
\* baseline before either saved it (otherwise both sessions are integrated)
C24_ConcurrentRunsLoseSession ==
    BothSucceeded =>
        IF \A r \in RunIds : run[r].loaded = NewBaseline
          THEN /\ baselineFile.total_sessions = 1
               /\ \E r \in RunIds :
                     baselineFile = update_baseline_with_new_data(NewBaseline, run[r].rows)
          ELSE /\ baselineFile.total_sessions = 2
               /\ baselineFile \in {Integrated(NewBaseline, 1, 2),
                                     Integrated(NewBaseline, 2, 1)}

\* both calls returned success, the baseline counts one session, and a
\* driver of one of the two sessions has no record in it
C24_Witness ==
    /\ BothSucceeded
    /\ baselineFile.total_sessions = 1
    /\ \E r \in RunIds : \E d \in SessionDrivers(run[r].rows) :
          d \notin DOMAIN baselineFile.driver_records

\* C25: when process_new_data_file returns a failure result, the persisted
\* baseline is what the call loaded (the call never having loaded it, it
\* holds no more sessions than were saved by earlier calls), so that
\* total_sessions increases only for calls that return success
C25_FailureLeavesBaseline ==
    (run[1].pc = "returned" /\ run[1].result # "success") =>
        IF run[1].loaded = NoFile
          THEN load_or_create_baseline(baselineFile).total_sessions = Len(history)
          ELSE load_or_create_baseline(baselineFile) = run[1].loaded

\* C26: a rollback that succeeds restores, among the records of the log
\* with the requested name, the one created most recently (the last of them
\* in the log, records being appended in order of creation)
C26_RollbackTakesLatest ==
    (vm[1].pc = "returned" /\ vm[1].op = "rollback" /\ vm[1].result = "True") =>
        LET versions == vm[1].pre.versionLog.versions
            hits == {i \in 1..Len(versions) : versions[i].version_name = vm[1].name}
            latest == versions[CHOOSE i \in hits : \A j \in hits : j <= i]
        IN  latest.filename \in DOMAIN vm[1].pre.snapshots =>
                live = vm[1].pre.snapshots[latest.filename]

\* the recommendation for req comes from a simulated best scenario, not from
\* the default returned on an error or an empty pit window
FromSimulation(req) ==
    /\ SimulationError(req) = "none"
    /\ simulate_pit_scenarios(req) # <<>>

\* C27: an optimizer waiting for a request can be brought to return each of
\* the three documented actions from a simulated scenario, by some race
\* state and tire model: PIT_NOW, PIT_IN_<n>_LAPS, and STAY_OUT chosen from
\* the best scenario
C27_ThreeActionsReachable ==
    pitPhase = "idle" =>
    /\ \E req \in PitRequests :
          FromSimulation(req) /\ get_recommendation(req).action = "PIT_NOW"
    /\ \E req \in PitRequests :
          FromSimulation(req) /\
          get_recommendation(req).action \in {"PIT_IN_1_LAPS", "PIT_IN_2_LAPS", "PIT_IN_3_LAPS"}
    /\ \E req \in PitRequests :
          FromSimulation(req) /\ get_recommendation(req).action = "STAY_OUT"

\* C28: whenever the pit-window route of the Standalone Prediction Function
\* answers PIT_IN_<N>_LAPS, N is an integer from 1 to 3 and current_lap + N
\* does not exceed max_laps
C28_PitInWithinRace ==
    pw.result.windowed =>
        /\ pw.result.laps_to_pit \in 1..3
        /\ pw.body.current_lap + pw.result.laps_to_pit <= pw.body.max_laps

\* C29: an invocation of the Telemetry Ingestion Trigger Function that
\* returns a failure payload has written no processed object for its event;
\* a processed object is written only by invocations that also record the
\* metadata row and return success
C29_FailureWritesNothing ==
    /\ tp.last.statusCode = 500 => ~tp.last.written
    /\ tp.last.written => (tp.last.recorded /\ tp.last.statusCode = 200)

\* C30: in a confirmed cleanup run, bucket emptying, stack removal and
\* orphan-resource deletion start only after the backup step has completed
\* successfully; if the backup step fails, no resource is deleted
C30_DeletionOnlyAfterBackup ==
    cleanup.performed \cap {"empty_bucket", "remove_stack", "orphans"} # {} =>
        /\ cleanup.confirmed
        /\ "backup" \in cleanup.performed
        /\ "backup" \notin cleanup.errors

====
